---- MODULE Spec2Model ----
(***************************************************************************)
(* Real-time speech translation pipeline (audio capture -> STT ->          *)
(* translation): state-machine model of                                    *)
(*   src/realtime_translator.py  RealtimeTranslator                        *)
(*   src/realtime_stt.py         RealtimeSTT                               *)
(*   src/audio_capture.py        ChromeAudioCapture                        *)
(* Strings are sequences of one-character strings; "" is <<>>.             *)
(***************************************************************************)
EXTENDS Integers, Sequences, FiniteSets, TLC

VARIABLES
    \* ---- RealtimeTranslator (src/realtime_translator.py) ----
    use_cache,              \* config.use_cache
    skip_duplicates,        \* config.skip_duplicates
    cache_file,             \* .cache/realtime_translation_cache.json
    translation_cache,      \* self.translation_cache
    model_loaded,           \* self.model is not None
    last_translated_text,   \* self.last_translated_text
    cache_hits,             \* self.cache_hits
    cache_misses,           \* self.cache_misses
    filter_passes,          \* history: translate_text calls past the two filters
    pc,                     \* position of each thread
    frame,                  \* locals of the translate_text call each thread is in
    call_log,               \* history: translate_text calls completed by the API caller
    translation_queue,      \* self.translation_queue
    translation_results,    \* self.result_queue
    translator_is_running,  \* self.is_running
    processing_threads,     \* self.processing_threads
    lifecycle,              \* which of start() / stop() the API caller has reached
    stop_i,                 \* loop index inside stop()
    prod_pc,                \* position of each translate_async call
    prod_item,              \* the text each translate_async call enqueues
    drops,                  \* history: requests dropped on queue.Full
    enqueued,               \* history: the texts put on translation_queue, in order
    \* ---- RealtimeSTT (src/realtime_stt.py) ----
    stt_model_loaded,       \* self.model is not None
    audio_queue,            \* self.audio_queue
    stt_results,            \* self.result_queue
    stt_is_running,         \* self.is_running
    last_result,            \* self.last_result
    stt_item,               \* the worker's locals: audio_data and text
    stt_lifecycle,          \* which of start() / stop() the API caller has reached
    audio_pc,               \* position of each process_audio call
    audio_item,             \* the segment each process_audio call enqueues
    audio_drops,            \* history: segments dropped on queue.Full
    \* ---- ChromeAudioCapture (src/audio_capture.py) ----
    min_speech_duration,    \* config.min_speech_duration
    max_silence_duration,   \* config.max_silence_duration
    on_speech_ended,        \* self.on_speech_ended is set
    on_continuous_audio,    \* self.on_continuous_audio is set
    buffer_config,          \* config.buffer_duration, sample_rate and chunk_size
    audio_buffer_maxlen,    \* self.audio_buffer.maxlen
    is_recording,           \* self.is_recording
    last_processing_time,   \* self.last_processing_time
    cont_pc,                \* position of the continuous processing worker
    cont_now,               \* the worker's local current_time
    cont_n,                 \* chunks_needed in the worker's get_audio_segment call
    flushed,                \* history: segments handed to on_continuous_audio
    session_base,           \* history: chunks appended before the latest start_capture
    sessions,               \* history: number of start_capture calls
    cont_other,             \* the worker of the session before, while it lives
    \* ---- callbacks of the two stages, registered as in main.py lines 125-136 ----
    result_callbacks,       \* threads running on_transcription / on_translation
    error_calls,            \* history: number of on_error calls
    \* ---- ChromeRealtimeTranslator (src/main.py) ----
    orchestrator,           \* where start() is; is_running is orchestrator = "running"
    audio_buffer,           \* self.audio_buffer, chunks named by their number
    noise_buffer,           \* self.noise_buffer, RMS levels
    adaptive_threshold,     \* self.adaptive_threshold, times noise_warmup
    is_speaking,            \* self.is_speaking
    speech_start_time,      \* self.speech_start_time
    last_speech_time,       \* self.last_speech_time
    silence_start_time,     \* self.silence_start_time
    current_time,           \* time.time() as last read by audio_callback
    has_speech,             \* audio_callback's local has_speech, last call
    last_audio_data,        \* audio_callback's local audio_data, last call
    chunk_no,               \* number of audio_callback calls so far
    emitted,                \* segments handed to on_speech_ended
    deferrals               \* history: calls of this utterance that found the
                            \* silence long enough and the speech too short

\* written by translate_text
coreVars == <<translation_cache, last_translated_text, cache_hits, cache_misses, filter_passes,
              pc, frame, call_log>>
configVars == <<use_cache, skip_duplicates>>
producerVars == <<prod_pc, prod_item, drops, enqueued>>
stageVars == <<translation_queue, translation_results, translator_is_running,
               processing_threads, lifecycle, stop_i>>

translatorVars == <<configVars, cache_file, model_loaded, translation_cache,
                    last_translated_text, cache_hits, cache_misses, filter_passes, frame, call_log,
                    stageVars, producerVars>>
audioVars == <<audio_pc, audio_item, audio_drops>>
sttVars == <<stt_model_loaded, audio_queue, stt_results, stt_is_running, last_result,
             stt_item, stt_lifecycle, audioVars>>

captureConfigVars == <<min_speech_duration, max_silence_duration, on_speech_ended,
                       on_continuous_audio, buffer_config, audio_buffer_maxlen>>
callbackVars == <<audio_buffer, noise_buffer, adaptive_threshold,
                  is_speaking, speech_start_time, last_speech_time, silence_start_time,
                  current_time, has_speech, last_audio_data,
                  chunk_no, emitted, deferrals>>
controlVars == <<is_recording, last_processing_time, cont_pc, cont_now, cont_n,
                 flushed, session_base, sessions, cont_other>>
captureVars == <<captureConfigVars, callbackVars, controlVars>>

dispatchVars == <<result_callbacks, error_calls>>

vars == <<configVars, cache_file, model_loaded, coreVars, stageVars, producerVars,
          sttVars, captureVars, orchestrator, dispatchVars>>

(***************************************************************************)
(* Bounds of the model and scaled configuration values.                    *)
(***************************************************************************)
\* RealtimeTranslatorConfig.max_text_length (500 in the source), scaled
max_text_length == 3
\* number of translate_text calls the API caller makes directly
MaxCalls == 3

\* RealtimeTranslatorConfig.max_queue_size (20 in the source), scaled
max_queue_size == 1
\* number of translate_async calls made on the stage
MaxRequests == 3

\* number of process_audio calls made on the stage
MaxSegments == 3
\* number of items submitted to a stage in the runs checked for shutdown
MaxShutdownItems == 2

\* number of audio_callback calls
MaxChunks == 5
\* chunks the ring buffer holds in the runs with audio (78 in the source), scaled
buffer_size == 3
\* chunks in get_audio_segment()'s default 3.0 s (46 in the source), scaled
segment_chunks == 2
\* ChromeAudioCapture.noise_buffer maxlen (50 in the source), scaled
noise_maxlen == 3
\* entries averaged for the adaptive threshold (10 in the source), scaled
noise_warmup == 2

\* RealtimeTranslatorConfig.min_text_length
min_text_length == 2
\* queue.Queue() in RealtimeSTT.__init__: maxsize 0, no limit
audio_queue_maxsize == 0
\* RealtimeSTTConfig.min_audio_length and max_audio_length, seconds
min_audio_length == 1
max_audio_length == 10

(***************************************************************************)
(* Strings.                                                                *)
(***************************************************************************)
Space == " "

RECURSIVE LStrip(_)
LStrip(s) == IF s # <<>> /\ Head(s) = Space THEN LStrip(Tail(s)) ELSE s

RECURSIVE RStrip(_)
RStrip(s) ==
    IF s # <<>> /\ s[Len(s)] = Space THEN RStrip(SubSeq(s, 1, Len(s) - 1)) ELSE s

\* str.strip()
Strip(s) == RStrip(LStrip(s))

\* text[:n]
Prefix(s, n) == IF Len(s) > n THEN SubSeq(s, 1, n) ELSE s

\* the texts a caller passes in
T_ab      == <<"a", "b">>
T_ab_pad  == <<" ", "a", "b", " ">>
T_cd      == <<"c", "d">>
T_short   == <<"a", " ">>
T_long    == <<"a", "b", "c", "d">>
\* "Hello world", the warm-up text of _warmup_model
DummyText == <<"h", "w">>
RawTexts  == {T_ab, T_ab_pad, T_cd, T_short, T_long, DummyText, <<>>}

\* the normalisation translate_text applies before the filters (strip, cap)
NormalizeText(input) == Prefix(Strip(input), max_text_length)

\* the length filter of translate_text
TooShort(input) == input = <<>> \/ Len(Strip(input)) < min_text_length

\* hashlib.md5(text).hexdigest(): a digest of the text, distinct from it
get_cache_key(text) == <<"#">> \o text

(***************************************************************************)
(* The translation engine (model.generate + decode + post-processing).     *)
(* Sampling is enabled (top_k, top_p, temperature), so the same text may   *)
(* give different outputs on different calls.                              *)
(***************************************************************************)
EngineVariants == {"k", "q"}
EngineOutput(text, v) == <<v>> \o text
EngineOutputs(text) == {EngineOutput(text, v) : v \in EngineVariants}

\* engine outcomes: a variant on success, "fail" when it raises
EngineOutcomes == EngineVariants \cup {"fail"}

(***************************************************************************)
(* Persisted cache file and the in-memory map.                             *)
(***************************************************************************)
EmptyMap == [k \in {} |-> <<>>]

MapPut(m, k, v) == [x \in (DOMAIN m) \cup {k} |-> IF x = k THEN v ELSE m[x]]

\* the maps an earlier run can have saved: entries the engine produced
SavedMaps ==
    {EmptyMap,
     MapPut(EmptyMap, get_cache_key(T_ab), EngineOutput(T_ab, "k")),
     MapPut(EmptyMap, get_cache_key(DummyText), EngineOutput(DummyText, "q"))}

\* what json.loads returns for a store holding the JSON text null: not a
\* dict, written here as a map with a key no text hashes to
JsonNull == MapPut(EmptyMap, <<"null">>, <<>>)

\* the store: no file, a file that is not JSON, a file holding JSON that is
\* not an object, or a saved map
FileStates ==
    {[state |-> "missing", data |-> EmptyMap], [state |-> "corrupt", data |-> EmptyMap],
     [state |-> "not_object", data |-> JsonNull]}
    \cup {[state |-> "ok", data |-> m] : m \in SavedMaps}

\* load_cache, lines 92-101: whatever json.loads returns is returned; a
\* missing file or a file json.loads rejects gives {}
load_cache(file) ==
    IF file.state \in {"ok", "not_object"} THEN file.data ELSE EmptyMap

\* the thread calling the public methods, and the worker threads start() creates
WorkerIds == <<"w1", "w2">>
Workers == {WorkerIds[i] : i \in 1..Len(WorkerIds)}
Threads == {"caller", "stt"} \cup Workers

\* the termination sentinel None put on a queue
NoneItem == <<"None">>

\* queue.Queue(maxsize): full only when maxsize > 0
QueueFull(q, maxsize) == maxsize > 0 /\ Len(q) >= maxsize

NoFrame == [ctx |-> "none", input |-> <<>>, text |-> <<>>, key |-> <<>>,
            hits0 |-> 0, misses0 |-> 0, last0 |-> <<>>, cached0 |-> FALSE,
            ret |-> <<>>, raised |-> FALSE, failed |-> FALSE]

(***************************************************************************)
(* RealtimeTranslator.translate_text, lines 155-245.  The call is split at *)
(* the blocking engine call: translate_text_begin runs up to it (filters,  *)
(* cache lookup, miss counter), translate_text_engine is its return.       *)
(***************************************************************************)
\* where a thread continues when its translate_text call returns
AfterCall(ctx) ==
    CASE ctx = "direct" -> "idle"
      [] ctx = "warmup" -> "loaded"
      [] OTHER          -> "w_result"

\* the call returns ret (or raises): the caller's calls are logged
Returned(t, f, ret, raised, engine) ==
    /\ pc' = [pc EXCEPT ![t] = AfterCall(f.ctx)]
    /\ frame' = [frame EXCEPT ![t] =
                    IF f.ctx = "worker"
                    THEN [f EXCEPT !.ret = ret, !.raised = raised,
                                   !.failed = (engine = "fail")]
                    ELSE NoFrame]
    /\ call_log' =
          IF t = "caller"
          THEN Append(call_log,
                      [input |-> f.input, text |-> f.text, ret |-> ret, raised |-> raised,
                       engine |-> engine, cached0 |-> f.cached0, last0 |-> f.last0,
                       hits0 |-> f.hits0, hits1 |-> cache_hits',
                       misses0 |-> f.misses0, misses1 |-> cache_misses',
                       stored |-> translation_cache' # translation_cache])
          ELSE call_log

\* the filter left out: every request passes
DuplicateFilteredNever(text) == FALSE

\* lines 166-168: the last-request filter
DuplicateFiltered(text) == skip_duplicates /\ text = last_translated_text

\* lines 172-174: the cache lookup
\* line 173: `cache_key in self.translation_cache` raises TypeError when the
\* loaded value is None
LookupRaises == use_cache /\ translation_cache = JsonNull

CacheHit(key) == use_cache /\ ~LookupRaises /\ key \in DOMAIN translation_cache

translate_text_begin(t, input, ctx) ==
    LET text == NormalizeText(input)
        key  == get_cache_key(text)
        f    == IF t = "caller"
                THEN [ctx |-> ctx, input |-> input, text |-> text, key |-> key,
                      hits0 |-> cache_hits, misses0 |-> cache_misses,
                      last0 |-> last_translated_text, cached0 |-> CacheHit(key),
                      ret |-> <<>>, raised |-> FALSE, failed |-> FALSE]
                ELSE [NoFrame EXCEPT !.ctx = ctx, !.input = input, !.text = text,
                                     !.key = key]
    IN  /\ translation_cache' = translation_cache
        /\ IF TooShort(input) \/ DuplicateFiltered(text)
           THEN /\ UNCHANGED <<last_translated_text, cache_hits, cache_misses, filter_passes>>
                /\ Returned(t, f, <<>>, FALSE, "none")
           ELSE IF LookupRaises
           THEN /\ UNCHANGED <<last_translated_text, cache_hits, cache_misses>>
                /\ filter_passes' = filter_passes + 1
                /\ Returned(t, f, <<>>, TRUE, "none")
           ELSE IF ctx = "worker"
           THEN \* `self.cache_hits += 1` and `self.cache_misses += 1` (lines 175,
                \* 179) read the counter and write it back; with several workers
                \* the two are separate steps: here the read, WorkerCount the write
                /\ filter_passes' = filter_passes + 1
                /\ UNCHANGED <<last_translated_text, cache_hits, cache_misses, call_log>>
                /\ pc' = [pc EXCEPT ![t] = "tt_count"]
                /\ frame' = [frame EXCEPT ![t] =
                                IF CacheHit(key)
                                THEN [f EXCEPT !.cached0 = TRUE, !.hits0 = cache_hits]
                                ELSE [f EXCEPT !.misses0 = cache_misses]]
           ELSE IF CacheHit(key)
           THEN /\ cache_hits' = cache_hits + 1
                /\ last_translated_text' = text
                /\ cache_misses' = cache_misses
                /\ filter_passes' = filter_passes + 1
                /\ Returned(t, f, translation_cache[key], FALSE, "none")
           ELSE /\ cache_misses' = cache_misses + 1
                /\ filter_passes' = filter_passes + 1
                /\ UNCHANGED <<last_translated_text, cache_hits>>
                /\ IF ~model_loaded
                   THEN Returned(t, f, <<>>, TRUE, "none")
                   ELSE /\ pc' = [pc EXCEPT ![t] = "tt_engine"]
                        /\ frame' = [frame EXCEPT ![t] = f]
                        /\ call_log' = call_log

\* the fallback text cached when the engine raises
CacheAfterEngineAlways(f, outcome) ==
    IF use_cache
    THEN MapPut(translation_cache, f.key,
                IF outcome = "fail" THEN f.text ELSE EngineOutput(f.text, outcome))
    ELSE translation_cache

\* lines 228-230: what the cache holds after the engine call of frame f
CacheAfterEngine(f, outcome) ==
    IF outcome # "fail" /\ use_cache
    THEN MapPut(translation_cache, f.key, EngineOutput(f.text, outcome))
    ELSE translation_cache

\* lines 241 and 245: the value translate_text returns after the engine call
ResultAfterEngine(f, outcome) ==
    IF outcome = "fail" THEN f.text ELSE EngineOutput(f.text, outcome)

translate_text_engine(t, outcome) ==
    /\ pc[t] = "tt_engine"
    /\ translation_cache' = CacheAfterEngine(frame[t], outcome)
    /\ last_translated_text' =
          IF outcome = "fail" THEN last_translated_text ELSE frame[t].text
    /\ UNCHANGED <<cache_hits, cache_misses, filter_passes>>
    /\ Returned(t, frame[t], ResultAfterEngine(frame[t], outcome), FALSE,
                IF outcome = "fail" THEN "fail" ELSE "ok")

(***************************************************************************)
(* The API caller using the translator directly.                           *)
(***************************************************************************)
\* load_model, lines 116-143, succeeding: _warmup_model follows
LoadModel ==
    /\ pc["caller"] = "idle"
    /\ lifecycle = "new"
    /\ ~model_loaded
    /\ model_loaded' = TRUE
    /\ pc' = [pc EXCEPT !["caller"] = "warmup"]
    /\ UNCHANGED <<configVars, cache_file, translation_cache, last_translated_text,
                   cache_hits, cache_misses, filter_passes, frame, call_log, stageVars, producerVars,
                   sttVars, captureVars, orchestrator, dispatchVars>>

\* _warmup_model, lines 145-153: translate_text("Hello world")
WarmupModel ==
    /\ pc["caller"] = "warmup"
    /\ translate_text_begin("caller", DummyText, "warmup")
    /\ UNCHANGED <<configVars, cache_file, model_loaded, stageVars, producerVars,
                   sttVars, captureVars, orchestrator, dispatchVars>>

\* load_model returns to its caller
LoadModelReturn ==
    /\ pc["caller"] = "loaded"
    /\ lifecycle = "new"
    /\ pc' = [pc EXCEPT !["caller"] = "idle"]
    /\ UNCHANGED <<configVars, cache_file, model_loaded, translation_cache,
                   last_translated_text, cache_hits, cache_misses, filter_passes, frame, call_log,
                   stageVars, producerVars,
                   sttVars, captureVars, orchestrator, dispatchVars>>

\* translate_text(input) called directly
CallTranslate(input) ==
    /\ pc["caller"] = "idle"
    /\ lifecycle = "new"
    /\ Len(call_log) < MaxCalls
    /\ translate_text_begin("caller", input, "direct")
    /\ UNCHANGED <<configVars, cache_file, model_loaded, stageVars, producerVars,
                   sttVars, captureVars, orchestrator, dispatchVars>>

\* the engine call of the caller's translate_text returns or raises
CallerEngineReturns(outcome) ==
    /\ translate_text_engine("caller", outcome)
    /\ UNCHANGED <<configVars, cache_file, model_loaded, stageVars, producerVars,
                   sttVars, captureVars, orchestrator, dispatchVars>>

(***************************************************************************)
(* Audio capture, src/audio_capture.py: audio_callback with the voice      *)
(* activity detection and the speech / silence state machine.  Times are   *)
(* whole ticks; a time that is None is NoTime.  RMS levels are whole       *)
(* multiples of a quarter of silence_threshold.                            *)
(***************************************************************************)
NoTime == 0 - 1

\* AudioCaptureConfig.silence_threshold (0.005), in units of 0.00125
silence_threshold == 4

\* self.processing_interval (3.0 s), in clock ticks
processing_interval == 2

\* line 323: time.sleep(0.5) between two passes of the continuous processing
\* worker, in clock ticks (the shortest time the model's clock resolves)
poll_interval == 1

\* start_capture calls made
MaxSessions == 2

\* segments the continuous processing worker hands over
MaxFlushes == 2

\* the values given to min_speech_duration and max_silence_duration, ticks
SpeechDurations == {1, 3}
SilenceDurations == {1, 2}

\* what a chunk can be: its RMS level and whether more than a tenth of its
\* energy lies in the 300-3400 Hz band
Chunks == {[rms |-> 0, voiced |-> FALSE],
           [rms |-> 2, voiced |-> TRUE],
           [rms |-> 16, voiced |-> TRUE],
           [rms |-> 16, voiced |-> FALSE]}

\* no chunk yet
NoChunk == [rms |-> 0, voiced |-> FALSE]

\* ticks between two audio_callback calls
Ticks == {1, 2}

\* an append that evicts nothing
DequeAppendNoEvict(d, x, n) == Append(d, x)

\* deque(maxlen=n).append(x)
DequeAppend(d, x, n) ==
    IF Len(d) < n THEN Append(d, x) ELSE Append(Tail(d), x)

RECURSIVE Sum(_)
Sum(q) == IF q = <<>> THEN 0 ELSE Head(q) + Sum(Tail(q))

Max(a, b) == IF a >= b THEN a ELSE b
Min(a, b) == IF a <= b THEN a ELSE b

\* the static threshold left out of the maximum
AdaptiveThresholdNoFloor(nb) ==
    IF Len(nb) >= noise_warmup
    THEN Sum(SubSeq(nb, 1, noise_warmup)) * 2
    ELSE adaptive_threshold

\* twice the mean level alone, whatever the static threshold
AdaptiveThresholdMeanOnly(nb) ==
    IF Len(nb) >= noise_warmup
    THEN Sum(SubSeq(nb, 1, noise_warmup)) * 2
    ELSE silence_threshold * noise_warmup

\* detect_voice_activity, lines 126-128: the threshold after the level was
\* appended to the noise buffer nb (kept times noise_warmup)
AdaptiveThreshold(nb) ==
    IF Len(nb) >= noise_warmup
    THEN Max(silence_threshold * noise_warmup, Sum(SubSeq(nb, 1, noise_warmup)) * 2)
    ELSE adaptive_threshold

\* the level test left out
VoiceActivityBandOnly(chunk, nb) == chunk.voiced

\* detect_voice_activity, lines 132-151: the level exceeds the threshold and
\* the speech band holds enough of the energy
VoiceActivity(chunk, nb) ==
    /\ chunk.rms * noise_warmup > AdaptiveThreshold(nb)
    /\ chunk.voiced

\* get_audio_segment(), lines 153-167, on the buffer buf
get_audio_segment(buf) ==
    SubSeq(buf, Len(buf) - Min(segment_chunks, Len(buf)) + 1, Len(buf))

\* the minimum speech check left out
SpeechLongEnoughAlways(now) == TRUE

\* line 207: the utterance has lasted min_speech_duration
SpeechLongEnough(now) == now - speech_start_time >= min_speech_duration

\* line 205: the silence has lasted max_silence_duration
SilenceLongEnough(now) ==
    now - (IF silence_start_time = NoTime THEN now ELSE silence_start_time)
        >= max_silence_duration

\* the silence timer started in Idle as well
audio_callbackTimerInIdle(chunk, now) ==
    LET buf == DequeAppend(audio_buffer, chunk_no + 1, audio_buffer_maxlen)
        nb == DequeAppend(noise_buffer, chunk.rms, noise_maxlen)
        speech == VoiceActivity(chunk, nb)
        ends == ~speech /\ is_speaking /\ SilenceLongEnough(now) /\ SpeechLongEnough(now)
    IN  /\ chunk_no' = chunk_no + 1
        /\ audio_buffer' = buf
        /\ noise_buffer' = nb
        /\ adaptive_threshold' = AdaptiveThreshold(nb)
        /\ has_speech' = speech
        /\ last_audio_data' = chunk
        /\ current_time' = now
        /\ last_speech_time' = IF speech THEN now ELSE last_speech_time
        /\ is_speaking' = IF speech THEN TRUE ELSE IF ends THEN FALSE ELSE is_speaking
        /\ speech_start_time' =
              IF speech /\ ~is_speaking THEN now ELSE speech_start_time
        /\ silence_start_time' =
              IF speech THEN (IF is_speaking THEN silence_start_time ELSE NoTime)
              ELSE IF ends THEN NoTime
              ELSE IF silence_start_time = NoTime THEN now
              ELSE silence_start_time
        /\ emitted' =
              IF ends /\ on_speech_ended /\ buf # <<>>
              THEN Append(emitted, get_audio_segment(buf))
              ELSE emitted
        /\ deferrals' =
              IF speech /\ ~is_speaking THEN 0
              ELSE IF ~speech /\ is_speaking /\ SilenceLongEnough(now)
                      /\ ~SpeechLongEnough(now)
              THEN deferrals + 1
              ELSE deferrals

\* the utterance ended only when a consumer is registered
audio_callbackNeedsConsumer(chunk, now) ==
    LET buf == DequeAppend(audio_buffer, chunk_no + 1, audio_buffer_maxlen)
        nb == DequeAppend(noise_buffer, chunk.rms, noise_maxlen)
        speech == VoiceActivity(chunk, nb)
        ends == ~speech /\ is_speaking /\ SilenceLongEnough(now) /\ SpeechLongEnough(now)
                    /\ on_speech_ended
    IN  /\ chunk_no' = chunk_no + 1
        /\ audio_buffer' = buf
        /\ noise_buffer' = nb
        /\ adaptive_threshold' = AdaptiveThreshold(nb)
        /\ has_speech' = speech
        /\ last_audio_data' = chunk
        /\ current_time' = now
        /\ last_speech_time' = IF speech THEN now ELSE last_speech_time
        /\ is_speaking' = IF speech THEN TRUE ELSE IF ends THEN FALSE ELSE is_speaking
        /\ speech_start_time' =
              IF speech /\ ~is_speaking THEN now ELSE speech_start_time
        /\ silence_start_time' =
              IF speech THEN (IF is_speaking THEN silence_start_time ELSE NoTime)
              ELSE IF ~is_speaking THEN silence_start_time
              ELSE IF ends THEN NoTime
              ELSE IF silence_start_time = NoTime THEN now
              ELSE silence_start_time
        /\ emitted' =
              IF ends /\ on_speech_ended /\ buf # <<>>
              THEN Append(emitted, get_audio_segment(buf))
              ELSE emitted
        /\ deferrals' =
              IF speech /\ ~is_speaking THEN 0
              ELSE IF ~speech /\ is_speaking /\ SilenceLongEnough(now)
                      /\ ~SpeechLongEnough(now)
              THEN deferrals + 1
              ELSE deferrals

\* audio_callback, lines 169-226, called with a chunk when time.time() is now
audio_callback(chunk, now) ==
    LET buf == DequeAppend(audio_buffer, chunk_no + 1, audio_buffer_maxlen)
        nb == DequeAppend(noise_buffer, chunk.rms, noise_maxlen)
        speech == VoiceActivity(chunk, nb)
        ends == ~speech /\ is_speaking /\ SilenceLongEnough(now) /\ SpeechLongEnough(now)
    IN  /\ chunk_no' = chunk_no + 1
        /\ audio_buffer' = buf
        /\ noise_buffer' = nb
        /\ adaptive_threshold' = AdaptiveThreshold(nb)
        /\ has_speech' = speech
        /\ last_audio_data' = chunk
        /\ current_time' = now
        /\ last_speech_time' = IF speech THEN now ELSE last_speech_time
        /\ is_speaking' = IF speech THEN TRUE ELSE IF ends THEN FALSE ELSE is_speaking
        /\ speech_start_time' =
              IF speech /\ ~is_speaking THEN now ELSE speech_start_time
        /\ silence_start_time' =
              IF speech THEN (IF is_speaking THEN silence_start_time ELSE NoTime)
              ELSE IF ~is_speaking THEN silence_start_time
              ELSE IF ends THEN NoTime
              ELSE IF silence_start_time = NoTime THEN now
              ELSE silence_start_time
        /\ emitted' =
              IF ends /\ on_speech_ended /\ buf # <<>>
              THEN Append(emitted, get_audio_segment(buf))
              ELSE emitted
        /\ deferrals' =
              IF speech /\ ~is_speaking THEN 0
              ELSE IF ~speech /\ is_speaking /\ SilenceLongEnough(now)
                      /\ ~SpeechLongEnough(now)
              THEN deferrals + 1
              ELSE deferrals

\* PyAudio calls audio_callback with the next chunk while the stream runs
AudioCallback(chunk, tick) ==
    /\ is_recording
    /\ chunk_no < MaxChunks
    /\ audio_callback(chunk, current_time + tick)
    /\ UNCHANGED <<captureConfigVars, controlVars, translatorVars, pc, sttVars, orchestrator, dispatchVars>>

\* no second worker thread
NoWorker == [pc |-> "off", now |-> 0, n |-> 0]

\* start_capture(), lines 228-264, once the worker of an earlier session has
\* returned: the stream is opened and started, the worker thread is started;
\* audio_buffer is left as it is
StartCapture ==
    /\ ~is_recording
    /\ cont_pc = "off"
    /\ sessions < MaxSessions
    /\ is_recording' = TRUE
    /\ cont_pc' = "head"
    /\ session_base' = chunk_no
    /\ sessions' = sessions + 1
    /\ UNCHANGED <<captureConfigVars, callbackVars, last_processing_time, cont_now,
                   cont_n, flushed, cont_other,
                   translatorVars, pc, sttVars, orchestrator, dispatchVars>>

\* start_capture(), lines 228-264, while the worker of the session before is
\* still in its loop (stop_capture does not join it): the new worker thread
\* is started, the earlier one lives on with its own position and locals
StartCaptureEarly ==
    /\ ~is_recording
    /\ cont_pc # "off"
    /\ cont_other = NoWorker
    /\ sessions < MaxSessions
    /\ is_recording' = TRUE
    /\ cont_other' = [pc |-> cont_pc, now |-> cont_now, n |-> cont_n]
    /\ cont_pc' = "head"
    /\ cont_n' = 0
    /\ session_base' = chunk_no
    /\ sessions' = sessions + 1
    /\ UNCHANGED <<captureConfigVars, callbackVars, last_processing_time, cont_now,
                   flushed, translatorVars, pc, sttVars, orchestrator, dispatchVars>>

\* the scheduler runs the other of two worker threads: cont_pc, cont_now and
\* cont_n are the position and the locals of the thread that takes the next
\* step of _continuous_processing_worker
ContinuousSwitch ==
    /\ cont_other # NoWorker
    /\ cont_pc' = cont_other.pc
    /\ cont_now' = cont_other.now
    /\ cont_n' = cont_other.n
    /\ cont_other' = IF cont_pc = "off" THEN NoWorker
                     ELSE [pc |-> cont_pc, now |-> cont_now, n |-> cont_n]
    /\ UNCHANGED <<captureConfigVars, callbackVars, is_recording, last_processing_time,
                   flushed, session_base, sessions,
                   translatorVars, pc, sttVars, orchestrator, dispatchVars>>

\* stop_capture(), lines 266-279
StopCapture ==
    /\ is_recording
    /\ is_recording' = FALSE
    /\ UNCHANGED <<captureConfigVars, callbackVars, last_processing_time, cont_pc,
                   cont_now, cont_n, flushed, session_base, sessions, cont_other,
                   translatorVars, pc, sttVars, orchestrator, dispatchVars>>

\* the interval check left out
FlushDueAlways(now) == TRUE

\* line 308: a flush is due at the worker's clock reading now
FlushDue(now) == now - last_processing_time >= processing_interval

\* _continuous_processing_worker, lines 303-310 and get_audio_segment line 155:
\* the loop condition, the clock, the interval check and the emptiness check of
\* the buffer; a pass that finds nothing to do sleeps and comes back here
ContinuousHead ==
    /\ cont_pc = "head"
    /\ IF ~is_recording
       THEN /\ cont_pc' = "off"
            /\ UNCHANGED cont_now
       ELSE /\ FlushDue(current_time)
            /\ audio_buffer # <<>>
            /\ Len(flushed) < MaxFlushes
            /\ cont_pc' = "len"
            /\ cont_now' = current_time
    /\ UNCHANGED <<captureConfigVars, callbackVars, is_recording, last_processing_time,
                   cont_n, flushed, session_base, sessions, cont_other, translatorVars, pc, sttVars, orchestrator, dispatchVars>>

\* get_audio_segment lines 159-163 in the worker: chunks_needed from the length
\* of the buffer
ContinuousLen ==
    /\ cont_pc = "len"
    /\ cont_n' = Min(segment_chunks, Len(audio_buffer))
    /\ cont_pc' = "list"
    /\ UNCHANGED <<captureConfigVars, callbackVars, is_recording, last_processing_time,
                   cont_now, flushed, session_base, sessions, cont_other, translatorVars, pc, sttVars, orchestrator, dispatchVars>>

\* get_audio_segment lines 166-167 in the worker, then lines 312-323: the last
\* chunks_needed chunks of the buffer as it is now are handed to a new thread
\* running on_continuous_audio
ContinuousList ==
    /\ cont_pc = "list"
    /\ LET segment == SubSeq(audio_buffer, Len(audio_buffer) - cont_n + 1,
                             Len(audio_buffer))
       IN  IF on_continuous_audio
           THEN /\ flushed' = Append(flushed, [segment |-> segment,
                                                session_base |-> session_base,
                                                time |-> cont_now])
                /\ last_processing_time' = cont_now
           ELSE UNCHANGED <<flushed, last_processing_time>>
    /\ cont_pc' = "head"
    /\ cont_n' = 0
    /\ UNCHANGED <<captureConfigVars, callbackVars, is_recording, cont_now,
                   session_base, sessions, cont_other, translatorVars, pc, sttVars, orchestrator, dispatchVars>>

\* _continuous_processing_worker, lines 303-323: a pass that finds no flush
\* due, or the buffer empty, reads the clock and sleeps
ContinuousPoll ==
    /\ cont_pc = "head"
    /\ is_recording
    /\ ~(FlushDue(current_time) /\ audio_buffer # <<>>)
    /\ cont_now' = current_time
    /\ UNCHANGED <<captureConfigVars, callbackVars, is_recording, last_processing_time,
                   cont_pc, cont_n, flushed, session_base, sessions, cont_other,
                   translatorVars, pc, sttVars, orchestrator, dispatchVars>>

\* the sleep that never ends before a chunk arrives
TimedCallbackNoWake(chunk, tick) ==
    /\ cont_pc = "head"
    /\ AudioCallback(chunk, tick)

\* a chunk arrives while the worker sleeps: a pass of the worker takes no
\* time, and the sleep of line 323, begun at the worker's clock reading
\* cont_now, ends after poll_interval, so that the next pass runs before the
\* clock goes beyond cont_now + poll_interval
TimedCallback(chunk, tick) ==
    /\ cont_pc = "head"
    /\ current_time + tick <= cont_now + poll_interval
    /\ AudioCallback(chunk, tick)

\* the capture's control operations and its worker
CaptureControl ==
    \/ StartCapture
    \/ StopCapture
    \/ ContinuousHead
    \/ ContinuousLen
    \/ ContinuousList

\* the configurations a capture is constructed with: AudioCaptureConfig lines
\* 19-23, buffer_duration in whole seconds
BufferConfigs ==
    [buffer_duration : {1, 2, 3, 5},
     sample_rate : {8000, 16000, 44100, 48000},
     chunk_size : {256, 512, 1024, 2048}]

\* line 38: int(buffer_duration * sample_rate / chunk_size); int() drops the
\* fraction of a quotient that is not negative
BufferCapacity(config) ==
    (config.buffer_duration * config.sample_rate) \div config.chunk_size

\* ChromeAudioCapture.__init__, lines 41-65: everything but the ring buffer
CaptureConstructed ==
    /\ audio_buffer = <<>>
    /\ noise_buffer = <<>>
    /\ adaptive_threshold = silence_threshold * noise_warmup
    /\ is_speaking = FALSE
    /\ speech_start_time = NoTime
    /\ last_speech_time = NoTime
    /\ silence_start_time = NoTime
    /\ current_time = 0
    /\ has_speech = FALSE
    /\ last_audio_data = NoChunk
    /\ chunk_no = 0
    /\ emitted = <<>>
    /\ deferrals = 0
    /\ is_recording = FALSE
    /\ last_processing_time = 0 - processing_interval
    /\ cont_pc = "off"
    /\ cont_now = 0
    /\ cont_n = 0
    /\ flushed = <<>>
    /\ session_base = 0
    /\ sessions = 0
    /\ cont_other = NoWorker

\* the capture as main.py sets it up (lines 114-117), not started
CaptureIdle ==
    /\ min_speech_duration = 1
    /\ max_silence_duration = 2
    /\ on_speech_ended = TRUE
    /\ on_continuous_audio = TRUE
    /\ buffer_config = [buffer_duration |-> buffer_size, sample_rate |-> 1, chunk_size |-> 1]
    /\ audio_buffer_maxlen = BufferCapacity(buffer_config)
    /\ CaptureConstructed

\* RealtimeSTT.__init__, lines 75-98
STTConstructed ==
    /\ stt_model_loaded = FALSE
    /\ audio_queue = <<>>
    /\ stt_results = <<>>
    /\ stt_is_running = FALSE
    /\ last_result = <<>>
    /\ stt_item = [audio |-> 0, raw |-> <<>>, text |-> <<>>, raised |-> FALSE]
    /\ stt_lifecycle = "new"
    /\ audio_pc = [p \in 1..MaxSegments |-> "new"]
    /\ audio_item = [p \in 1..MaxSegments |-> 0]
    /\ audio_drops = 0

\* RealtimeTranslator.__init__, lines 53-85, for a configuration and a
\* persisted store
TranslatorConstructed ==
    /\ translation_cache = IF use_cache THEN load_cache(cache_file) ELSE EmptyMap
    /\ model_loaded = FALSE
    /\ last_translated_text = <<>>
    /\ cache_hits = 0
    /\ cache_misses = 0
    /\ filter_passes = 0
    /\ pc = [t \in Threads |-> IF t = "caller" THEN "idle" ELSE "unborn"]
    /\ frame = [t \in Threads |-> NoFrame]
    /\ call_log = <<>>
    /\ translation_queue = <<>>
    /\ translation_results = <<>>
    /\ translator_is_running = FALSE
    /\ processing_threads = <<>>
    /\ lifecycle = "new"
    /\ stop_i = 0
    /\ prod_pc = [p \in 1..MaxRequests |-> "new"]
    /\ prod_item = [p \in 1..MaxRequests |-> <<>>]
    /\ result_callbacks = 0
    /\ error_calls = 0
    /\ orchestrator = "new"
    /\ drops = 0
    /\ enqueued = <<>>

\* any configuration, any persisted store
InitTranslator ==
    /\ use_cache \in BOOLEAN
    /\ skip_duplicates \in BOOLEAN
    /\ cache_file \in FileStates
    /\ TranslatorConstructed
    /\ STTConstructed
    /\ CaptureIdle

NextTranslate ==
    \/ LoadModel
    \/ WarmupModel
    \/ LoadModelReturn
    \/ \E input \in RawTexts : CallTranslate(input)
    \/ \E outcome \in EngineOutcomes : CallerEngineReturns(outcome)

\* a single thread calling load_model and translate_text
SpecTranslate == InitTranslator /\ [][NextTranslate]_vars

(***************************************************************************)
(* The translation stage: start(), the workers, translate_async(), stop(). *)
(***************************************************************************)
\* start(num_workers), lines 289-295: the model is loaded first
StartLoad ==
    /\ pc["caller"] = "idle"
    /\ lifecycle = "new"
    /\ ~translator_is_running
    /\ lifecycle' = "starting"
    /\ IF model_loaded
       THEN pc' = [pc EXCEPT !["caller"] = "loaded"] /\ UNCHANGED model_loaded
       ELSE pc' = [pc EXCEPT !["caller"] = "warmup"] /\ model_loaded' = TRUE
    /\ UNCHANGED <<configVars, cache_file, translation_cache, last_translated_text,
                   cache_hits, cache_misses, filter_passes, frame, call_log, translation_queue,
                   translation_results, translator_is_running, processing_threads,
                   stop_i, producerVars,
                   sttVars, captureVars, orchestrator, dispatchVars>>

\* start(num_workers), lines 297-308: the flag is set and the workers created
StartWorkers(num_workers) ==
    /\ pc["caller"] = "loaded"
    /\ lifecycle = "starting"
    /\ translator_is_running' = TRUE
    /\ processing_threads' = SubSeq(WorkerIds, 1, num_workers)
    /\ pc' = [t \in Threads |->
                IF t = "caller" THEN "idle"
                ELSE IF \E i \in 1..num_workers : WorkerIds[i] = t THEN "head"
                ELSE pc[t]]
    /\ lifecycle' = "running"
    /\ UNCHANGED <<configVars, cache_file, model_loaded, translation_cache,
                   last_translated_text, cache_hits, cache_misses, filter_passes, frame, call_log,
                   translation_queue, translation_results, stop_i, producerVars,
                   sttVars, captureVars, orchestrator, dispatchVars>>

\* line 251: while self.is_running or not self.translation_queue.empty()
WorkerLoopCondition == translator_is_running \/ translation_queue # <<>>

\* the worker waits at the loop head until the callbacks have returned
WorkerHeadWaits(w) ==
    /\ pc[w] = "head"
    /\ result_callbacks = 0
    /\ pc' = [pc EXCEPT ![w] = IF WorkerLoopCondition THEN "get" ELSE "exited"]
    /\ UNCHANGED <<configVars, cache_file, model_loaded, translation_cache,
                   last_translated_text, cache_hits, cache_misses, filter_passes, frame, call_log,
                   stageVars, producerVars,
                   sttVars, captureVars, orchestrator, dispatchVars>>

\* line 251: the head of the worker's loop
WorkerHead(w) ==
    /\ pc[w] = "head"
    /\ pc' = [pc EXCEPT ![w] = IF WorkerLoopCondition THEN "get" ELSE "exited"]
    /\ UNCHANGED <<configVars, cache_file, model_loaded, translation_cache,
                   last_translated_text, cache_hits, cache_misses, filter_passes, frame, call_log,
                   stageVars, producerVars,
                   sttVars, captureVars, orchestrator, dispatchVars>>

\* lines 254-262: get(timeout=1.0) returns an item; None ends the worker,
\* anything else is translated
WorkerGet(w) ==
    /\ pc[w] = "get"
    /\ translation_queue # <<>>
    /\ translation_queue' = Tail(translation_queue)
    /\ IF Head(translation_queue) = NoneItem
       THEN /\ pc' = [pc EXCEPT ![w] = "exited"]
            /\ UNCHANGED <<translation_cache, last_translated_text, cache_hits,
                           cache_misses, filter_passes, frame, call_log>>
       ELSE translate_text_begin(w, Head(translation_queue), "worker")
    /\ UNCHANGED <<configVars, cache_file, model_loaded, translation_results,
                   translator_is_running, processing_threads, lifecycle, stop_i,
                   producerVars,
                   sttVars, captureVars, orchestrator, dispatchVars>>

\* lines 278-279: get(timeout=1.0) raises queue.Empty, the loop continues
WorkerGetEmpty(w) ==
    /\ pc[w] = "get"
    /\ translation_queue = <<>>
    /\ pc' = [pc EXCEPT ![w] = "head"]
    /\ UNCHANGED <<configVars, cache_file, model_loaded, translation_cache,
                   last_translated_text, cache_hits, cache_misses, filter_passes, frame, call_log,
                   stageVars, producerVars,
                   sttVars, captureVars, orchestrator, dispatchVars>>

\* translate_text in a worker, lines 175-182: the counter read at the lookup is
\* written back, one more; a hit returns the cached value, a miss goes on to
\* the engine call
WorkerCount(w) ==
    LET f == frame[w]
        g == [f EXCEPT !.cached0 = FALSE, !.hits0 = 0, !.misses0 = 0]
    IN  /\ w \in Workers
        /\ pc[w] = "tt_count"
        /\ IF f.cached0
           THEN /\ cache_hits' = f.hits0 + 1
                /\ last_translated_text' = f.text
                /\ cache_misses' = cache_misses
                /\ Returned(w, g, translation_cache[f.key], FALSE, "none")
           ELSE /\ cache_misses' = f.misses0 + 1
                /\ UNCHANGED <<last_translated_text, cache_hits>>
                /\ IF ~model_loaded
                   THEN Returned(w, g, <<>>, TRUE, "none")
                   ELSE /\ pc' = [pc EXCEPT ![w] = "tt_engine"]
                        /\ frame' = [frame EXCEPT ![w] = g]
                        /\ call_log' = call_log
        /\ UNCHANGED <<configVars, cache_file, model_loaded, translation_cache,
                       filter_passes, stageVars, producerVars,
                       sttVars, captureVars, orchestrator, dispatchVars>>

\* the engine call of a worker's translate_text returns or raises
WorkerEngineReturns(w, outcome) ==
    /\ w \in Workers
    /\ translate_text_engine(w, outcome)
    /\ UNCHANGED <<configVars, cache_file, model_loaded, stageVars, producerVars,
                   sttVars, captureVars, orchestrator, dispatchVars>>

\* the engine call of a worker's translate_text never returns
WorkerHang(w) ==
    /\ w \in Workers
    /\ pc[w] = "tt_engine"
    /\ pc' = [pc EXCEPT ![w] = "hung"]
    /\ UNCHANGED <<configVars, cache_file, model_loaded, translation_cache,
                   last_translated_text, cache_hits, cache_misses, filter_passes, frame, call_log,
                   stageVars, producerVars,
                   sttVars, captureVars, orchestrator, dispatchVars>>

\* a failed translation ends the worker
WorkerResultFatal(w) ==
    /\ pc[w] = "w_result"
    /\ pc' = [pc EXCEPT ![w] = IF frame[w].failed THEN "exited" ELSE "head"]
    /\ frame' = [frame EXCEPT ![w] = NoFrame]
    /\ UNCHANGED <<configVars, cache_file, model_loaded, translation_cache,
                   last_translated_text, cache_hits, cache_misses, filter_passes, call_log,
                   stageVars, producerVars, sttVars, captureVars, orchestrator, dispatchVars>>

\* a worker that puts its result at the front of the result queue
WorkerResultFirst(w) ==
    /\ pc[w] = "w_result"
    /\ translation_results' =
          IF ~frame[w].raised /\ frame[w].ret # <<>>
          THEN <<<<frame[w].input, frame[w].ret>>>> \o translation_results
          ELSE translation_results
    /\ result_callbacks' =
          IF ~frame[w].raised /\ frame[w].ret # <<>>
          THEN result_callbacks + 1 ELSE result_callbacks
    /\ error_calls' = IF frame[w].raised THEN error_calls + 1 ELSE error_calls
    /\ pc' = [pc EXCEPT ![w] = "head"]
    /\ frame' = [frame EXCEPT ![w] = NoFrame]
    /\ UNCHANGED <<configVars, cache_file, model_loaded, translation_cache,
                   last_translated_text, cache_hits, cache_misses, filter_passes, call_log,
                   translation_queue, translator_is_running, processing_threads,
                   lifecycle, stop_i, producerVars,
                   sttVars, captureVars, orchestrator>>

\* lines 264-283: a non-empty result is queued and handed to on_translation
\* on a new thread; an exception that translate_text let through is logged and
\* passed to on_error; the loop continues
WorkerResult(w) ==
    /\ pc[w] = "w_result"
    /\ translation_results' =
          IF ~frame[w].raised /\ frame[w].ret # <<>>
          THEN Append(translation_results, <<frame[w].input, frame[w].ret>>)
          ELSE translation_results
    /\ result_callbacks' =
          IF ~frame[w].raised /\ frame[w].ret # <<>>
          THEN result_callbacks + 1 ELSE result_callbacks
    /\ error_calls' = IF frame[w].raised THEN error_calls + 1 ELSE error_calls
    /\ pc' = [pc EXCEPT ![w] = "head"]
    /\ frame' = [frame EXCEPT ![w] = NoFrame]
    /\ UNCHANGED <<configVars, cache_file, model_loaded, translation_cache,
                   last_translated_text, cache_hits, cache_misses, filter_passes, call_log,
                   translation_queue, translator_is_running, processing_threads,
                   lifecycle, stop_i, producerVars,
                   sttVars, captureVars, orchestrator>>

\* the texts passed to translate_async
StageTexts == {T_ab, T_ab_pad, T_cd}

\* translate_async(text), lines 336-341: rejected when the stage is not running
\* or the text is too short.  Calls are numbered in the order they are made.
ProducerCall(p, input) ==
    /\ prod_pc[p] = "new"
    /\ \A q \in 1..(p - 1) : prod_pc[q] # "new"
    /\ IF ~translator_is_running \/ TooShort(input)
       THEN prod_pc' = [prod_pc EXCEPT ![p] = "rejected"] /\ UNCHANGED prod_item
       ELSE /\ prod_pc' = [prod_pc EXCEPT ![p] = "put"]
            /\ prod_item' = [prod_item EXCEPT ![p] = Strip(input)]
    /\ UNCHANGED <<configVars, cache_file, model_loaded, coreVars, stageVars, drops,
                   enqueued,
                   sttVars, captureVars, orchestrator, dispatchVars>>

\* line 344: put(text.strip(), timeout=1.0) finds room
ProducerPut(p) ==
    /\ prod_pc[p] = "put"
    /\ ~QueueFull(translation_queue, max_queue_size)
    /\ translation_queue' = Append(translation_queue, prod_item[p])
    /\ enqueued' = Append(enqueued, prod_item[p])
    /\ prod_pc' = [prod_pc EXCEPT ![p] = "queued"]
    /\ UNCHANGED <<configVars, cache_file, model_loaded, coreVars, translation_results,
                   translator_is_running, processing_threads, lifecycle, stop_i,
                   prod_item, drops,
                   sttVars, captureVars, orchestrator, dispatchVars>>

\* lines 345-346: the queue stayed full for the timeout: queue.Full, a warning
ProducerDrop(p) ==
    /\ prod_pc[p] = "put"
    /\ QueueFull(translation_queue, max_queue_size)
    /\ prod_pc' = [prod_pc EXCEPT ![p] = "dropped"]
    /\ drops' = drops + 1
    /\ UNCHANGED <<configVars, cache_file, model_loaded, coreVars, stageVars, prod_item,
                   enqueued,
                   sttVars, captureVars, orchestrator, dispatchVars>>

\* a stop() that neither clears the flag nor queues a sentinel
StopBeginNoSignal ==
    /\ pc["caller"] = "idle"
    /\ lifecycle = "running"
    /\ translator_is_running
    /\ lifecycle' = "stopping"
    /\ pc' = [pc EXCEPT !["caller"] = "stop_join"]
    /\ stop_i' = 1
    /\ UNCHANGED <<configVars, cache_file, model_loaded, translation_cache,
                   last_translated_text, cache_hits, cache_misses, filter_passes, frame, call_log,
                   translation_queue, translation_results, translator_is_running,
                   processing_threads, producerVars, sttVars, captureVars, orchestrator, dispatchVars>>

\* stop(), lines 312-318: the flag is cleared
StopBegin ==
    /\ pc["caller"] = "idle"
    /\ lifecycle = "running"
    /\ translator_is_running
    /\ translator_is_running' = FALSE
    /\ lifecycle' = "stopping"
    /\ pc' = [pc EXCEPT !["caller"] = "stop_put"]
    /\ stop_i' = 1
    /\ UNCHANGED <<configVars, cache_file, model_loaded, translation_cache,
                   last_translated_text, cache_hits, cache_misses, filter_passes, frame, call_log,
                   translation_queue, translation_results, processing_threads,
                   producerVars,
                   sttVars, captureVars, orchestrator, dispatchVars>>

\* lines 319-320: self.translation_queue.put(None), once per worker; the put
\* has no timeout and waits while the queue is full
StopPut ==
    /\ pc["caller"] = "stop_put"
    /\ lifecycle = "stopping"
    /\ IF stop_i > Len(processing_threads)
       THEN /\ pc' = [pc EXCEPT !["caller"] = "stop_join"]
            /\ stop_i' = 1
            /\ UNCHANGED translation_queue
       ELSE /\ ~QueueFull(translation_queue, max_queue_size)
            /\ translation_queue' = Append(translation_queue, NoneItem)
            /\ stop_i' = stop_i + 1
            /\ UNCHANGED pc
    /\ UNCHANGED <<configVars, cache_file, model_loaded, translation_cache,
                   last_translated_text, cache_hits, cache_misses, filter_passes, frame, call_log,
                   translation_results, translator_is_running, processing_threads,
                   lifecycle, producerVars,
                   sttVars, captureVars, orchestrator, dispatchVars>>

\* a thread that has left its loop
Exited(w) == pc[w] = "exited"

\* lines 323-325: thread.join(timeout=5.0) returns when the thread has ended
\* or when the timeout expires
StopJoin ==
    /\ pc["caller"] = "stop_join"
    /\ lifecycle = "stopping"
    /\ stop_i <= Len(processing_threads)
    /\ stop_i' = stop_i + 1
    /\ UNCHANGED <<configVars, cache_file, model_loaded, coreVars, translation_queue,
                   translation_results, translator_is_running, processing_threads,
                   lifecycle, producerVars,
                   sttVars, captureVars, orchestrator, dispatchVars>>

\* save_cache, lines 103-114: the whole map is written
save_cache == IF use_cache THEN [state |-> "ok", data |-> translation_cache] ELSE cache_file

\* lines 327-332: the thread list is cleared, the cache saved, stop() returns
StopSave ==
    /\ pc["caller"] = "stop_join"
    /\ lifecycle = "stopping"
    /\ stop_i > Len(processing_threads)
    /\ processing_threads' = <<>>
    /\ cache_file' = save_cache
    /\ lifecycle' = "stopped"
    /\ pc' = [pc EXCEPT !["caller"] = "idle"]
    /\ stop_i' = 0
    /\ UNCHANGED <<configVars, model_loaded, translation_cache, last_translated_text,
                   cache_hits, cache_misses, filter_passes, frame, call_log, translation_queue,
                   translation_results, translator_is_running, producerVars,
                   sttVars, captureVars, orchestrator, dispatchVars>>

\* the configuration defaults (lines 35 and 44), the store missing or saved
\* by an earlier run
InitTranslatorStage ==
    /\ use_cache = TRUE
    /\ skip_duplicates = TRUE
    /\ cache_file \in {f \in FileStates :
                          f.state = "missing" \/ (f.state = "ok" /\ f.data # EmptyMap)}
    /\ TranslatorConstructed
    /\ STTConstructed
    /\ CaptureIdle

\* the configuration defaults, no persisted store
InitStages ==
    /\ InitTranslatorStage
    /\ cache_file.state = "missing"

\* the engine outcomes drawn while the stage runs
StageOutcomes == {"k", "fail"}

\* a thread running on_transcription or on_translation returns
CallbackReturns ==
    /\ result_callbacks > 0
    /\ result_callbacks' = result_callbacks - 1
    /\ UNCHANGED <<error_calls, orchestrator, captureVars, translatorVars, pc, sttVars>>

\* start(num_workers = 1) after stop() has returned, lines 287-308: the model
\* is loaded already, the flag is set and one new worker thread is created
\* and appended to processing_threads, which stop() cleared; threads that
\* outlived the join timeout of stop() are not looked at.  The model ends
\* with this second run.
StartAgain ==
    /\ pc["caller"] = "idle"
    /\ lifecycle = "stopped"
    /\ ~translator_is_running
    /\ \E w \in Workers :
          /\ pc[w] \in {"unborn", "exited"}
          /\ processing_threads' = <<w>>
          /\ pc' = [pc EXCEPT ![w] = "head"]
    /\ translator_is_running' = TRUE
    /\ lifecycle' = "restarted"
    /\ UNCHANGED <<configVars, cache_file, model_loaded, translation_cache,
                   last_translated_text, cache_hits, cache_misses, filter_passes, frame, call_log,
                   translation_queue, translation_results, stop_i, producerVars,
                   sttVars, captureVars, orchestrator, dispatchVars>>

\* the steps of a run with the given number of translate_async calls
NextTranslatorSteps(requests) ==
    \/ StartLoad
    \/ WarmupModel
    \/ \E outcome \in StageOutcomes : CallerEngineReturns(outcome)
    \/ \E n \in 1..Len(WorkerIds) : StartWorkers(n)
    \/ \E w \in Workers : WorkerHead(w)
    \/ \E w \in Workers : WorkerGet(w)
    \/ \E w \in Workers : WorkerGetEmpty(w)
    \/ \E w \in Workers : WorkerCount(w)
    \/ \E w \in Workers, outcome \in StageOutcomes : WorkerEngineReturns(w, outcome)
    \/ \E w \in Workers : WorkerResult(w)
    \/ \E p \in 1..requests, input \in StageTexts : ProducerCall(p, input)
    \/ \E p \in 1..requests : ProducerPut(p)
    \/ \E p \in 1..requests : ProducerDrop(p)
    \/ StopBegin
    \/ StopPut
    \/ StopJoin
    \/ StopSave
    \/ CallbackReturns

NextTranslatorNoHang == NextTranslatorSteps(MaxRequests)

NextTranslator ==
    \/ NextTranslatorNoHang
    \/ \E w \in Workers : WorkerHang(w)

\* the translation stage through one start() / stop() cycle, from a first run
\* (no persisted store)
SpecTranslator == InitStages /\ [][NextTranslator]_vars

(***************************************************************************)
(* The transcription stage, src/realtime_stt.py: start(), the single       *)
(* worker, process_audio(), stop().  An audio segment is modelled by its   *)
(* duration in seconds; None on the audio queue is NoneAudio.              *)
(***************************************************************************)
NoneAudio == 0 - 1

\* the segments passed to process_audio: too short, usual, too long
AudioInputs == {0, 3, 12}

\* RealtimeSTTConfig.suppress_tokens (lines 38-41), one of them: "Thank you"
suppress_tokens == {<<"t", "y">>}

\* str.lower() on the letters used
Lower(c) == IF c = "T" THEN "t" ELSE IF c = "Y" THEN "y" ELSE c
LowerText(text) == [i \in 1..Len(text) |-> Lower(text[i])]

\* token in text
Contains(text, token) ==
    \E i \in 1..(Len(text) - Len(token) + 1) :
        SubSeq(text, i, i + Len(token) - 1) = token

\* what the Whisper engine can return as result["text"]
T_thanks == <<"T", "y", "!">>
SttOutputs == {T_ab, T_ab_pad, T_cd, T_thanks}
SttOutcomes == SttOutputs \cup {<<"fail">>}

\* lines 161-164: a suppressed token occurs in the text, case-insensitively
Suppressed(text) ==
    \E token \in suppress_tokens : Contains(LowerText(text), LowerText(token))

\* the repeat check left out
RepeatSuppressedNever(text) == FALSE

\* lines 166-168: the text equals the last accepted result
RepeatSuppressed(text) == text = last_result

\* _filter_transcription, lines 154-171: the text returned
FilterResult(text) ==
    IF text = <<>> \/ Len(Strip(text)) < 2 THEN <<>>
    ELSE IF Suppressed(Strip(text)) THEN <<>>
    ELSE IF RepeatSuppressed(Strip(text)) THEN <<>>
    ELSE Strip(text)

\* _filter_transcription, line 170: self.last_result afterwards
FilterLast(text) == IF FilterResult(text) = <<>> THEN last_result ELSE FilterResult(text)

\* start(), lines 256-274: the model is loaded and warmed up, the flag set,
\* the worker thread created
STTStart ==
    /\ pc["caller"] = "idle"
    /\ stt_lifecycle = "new"
    /\ ~stt_is_running
    /\ stt_model_loaded' = TRUE
    /\ stt_is_running' = TRUE
    /\ pc' = [pc EXCEPT !["stt"] = "head"]
    /\ stt_lifecycle' = "running"
    /\ UNCHANGED <<orchestrator, dispatchVars, captureVars, translatorVars, audio_queue, stt_results, last_result, stt_item,
                   audioVars>>

\* line 220: while self.is_running or not self.audio_queue.empty()
STTLoopCondition == stt_is_running \/ audio_queue # <<>>

STTHead ==
    /\ pc["stt"] = "head"
    /\ pc' = [pc EXCEPT !["stt"] = IF STTLoopCondition THEN "get" ELSE "exited"]
    /\ UNCHANGED <<orchestrator, dispatchVars, captureVars, translatorVars, sttVars, captureVars, orchestrator, dispatchVars>>

\* lines 223-229 and 175-188: get(timeout=1.0) returns an item; None ends the
\* worker; a segment shorter than min_audio_length gives ""; a longer one is
\* cut to its last max_audio_length seconds and passed to the engine
STTGet ==
    /\ pc["stt"] = "get"
    /\ audio_queue # <<>>
    /\ audio_queue' = Tail(audio_queue)
    /\ LET audio_data == Head(audio_queue) IN
       IF audio_data = NoneAudio
       THEN /\ pc' = [pc EXCEPT !["stt"] = "exited"]
            /\ UNCHANGED stt_item
       ELSE IF ~stt_model_loaded
       THEN /\ pc' = [pc EXCEPT !["stt"] = "s_result"]
            /\ stt_item' = [audio |-> audio_data, raw |-> <<>>, text |-> <<>>,
                            raised |-> TRUE]
       ELSE IF audio_data < min_audio_length
       THEN /\ pc' = [pc EXCEPT !["stt"] = "s_result"]
            /\ stt_item' = [audio |-> audio_data, raw |-> <<>>, text |-> <<>>,
                            raised |-> FALSE]
       ELSE /\ pc' = [pc EXCEPT !["stt"] = "s_engine"]
            /\ stt_item' = [audio |-> IF audio_data > max_audio_length
                                      THEN max_audio_length ELSE audio_data,
                            raw |-> <<>>, text |-> <<>>, raised |-> FALSE]
    /\ UNCHANGED <<orchestrator, dispatchVars, captureVars, translatorVars, stt_model_loaded, stt_results, stt_is_running,
                   last_result, stt_lifecycle, audioVars>>

\* lines 247-248: get(timeout=1.0) raises queue.Empty, the loop continues
STTGetEmpty ==
    /\ pc["stt"] = "get"
    /\ audio_queue = <<>>
    /\ pc' = [pc EXCEPT !["stt"] = "head"]
    /\ UNCHANGED <<orchestrator, dispatchVars, captureVars, translatorVars, sttVars, captureVars, orchestrator, dispatchVars>>

\* lines 191-214: model.transcribe returns a text, which is stripped and
\* filtered, or raises, which gives ""
STTEngineReturns(outcome) ==
    /\ pc["stt"] = "s_engine"
    /\ pc' = [pc EXCEPT !["stt"] = "s_result"]
    /\ IF outcome = <<"fail">>
       THEN /\ stt_item' = [stt_item EXCEPT !.raw = outcome, !.text = <<>>]
            /\ UNCHANGED last_result
       ELSE /\ stt_item' = [stt_item EXCEPT !.raw = outcome,
                                            !.text = FilterResult(Strip(outcome))]
            /\ last_result' = FilterLast(Strip(outcome))
    /\ UNCHANGED <<orchestrator, dispatchVars, captureVars, translatorVars, stt_model_loaded, audio_queue, stt_results,
                   stt_is_running, stt_lifecycle, audioVars>>

\* model.transcribe never returns
STTHang ==
    /\ pc["stt"] = "s_engine"
    /\ pc' = [pc EXCEPT !["stt"] = "hung"]
    /\ UNCHANGED <<orchestrator, dispatchVars, captureVars, translatorVars, sttVars, captureVars, orchestrator, dispatchVars>>

\* lines 231-252: a non-empty text is queued and handed to on_transcription
\* on a new thread; an exception that _transcribe_audio let through is logged
\* and passed to on_error; the loop continues
STTResult ==
    /\ pc["stt"] = "s_result"
    /\ stt_results' =
          IF ~stt_item.raised /\ stt_item.text # <<>>
          THEN Append(stt_results, stt_item.text)
          ELSE stt_results
    /\ result_callbacks' =
          IF ~stt_item.raised /\ stt_item.text # <<>>
          THEN result_callbacks + 1 ELSE result_callbacks
    /\ error_calls' = IF stt_item.raised THEN error_calls + 1 ELSE error_calls
    /\ stt_item' = [audio |-> 0, raw |-> <<>>, text |-> <<>>, raised |-> FALSE]
    /\ pc' = [pc EXCEPT !["stt"] = "head"]
    /\ UNCHANGED <<orchestrator, captureVars, translatorVars, stt_model_loaded, audio_queue, stt_is_running,
                   last_result, stt_lifecycle, audioVars>>

\* process_audio(audio_data), lines 295-297: rejected when the stage is not
\* running.  Calls are numbered in the order they are made.
AudioCall(p, audio_data) ==
    /\ audio_pc[p] = "new"
    /\ \A q \in 1..(p - 1) : audio_pc[q] # "new"
    /\ IF ~stt_is_running
       THEN audio_pc' = [audio_pc EXCEPT ![p] = "rejected"] /\ UNCHANGED audio_item
       ELSE /\ audio_pc' = [audio_pc EXCEPT ![p] = "put"]
            /\ audio_item' = [audio_item EXCEPT ![p] = audio_data]
    /\ UNCHANGED <<orchestrator, dispatchVars, captureVars, translatorVars, pc, stt_model_loaded, audio_queue, stt_results,
                   stt_is_running, last_result, stt_item, stt_lifecycle, audio_drops>>

\* lines 299-303: put(audio_data, timeout=1.0); on queue.Full the segment is
\* dropped with a warning
AudioPut(p) ==
    /\ audio_pc[p] = "put"
    /\ IF QueueFull(audio_queue, audio_queue_maxsize)
       THEN /\ audio_pc' = [audio_pc EXCEPT ![p] = "dropped"]
            /\ audio_drops' = audio_drops + 1
            /\ UNCHANGED audio_queue
       ELSE /\ audio_pc' = [audio_pc EXCEPT ![p] = "queued"]
            /\ audio_queue' = Append(audio_queue, audio_item[p])
            /\ UNCHANGED audio_drops
    /\ UNCHANGED <<orchestrator, dispatchVars, captureVars, translatorVars, pc, stt_model_loaded, stt_results, stt_is_running,
                   last_result, stt_item, stt_lifecycle, audio_item>>

\* stop(), lines 278-284: the flag is cleared
STTStopBegin ==
    /\ pc["caller"] = "idle"
    /\ stt_lifecycle = "running"
    /\ stt_is_running
    /\ stt_is_running' = FALSE
    /\ stt_lifecycle' = "stopping"
    /\ pc' = [pc EXCEPT !["caller"] = "stop_put"]
    /\ UNCHANGED <<orchestrator, dispatchVars, captureVars, translatorVars, stt_model_loaded, audio_queue, stt_results,
                   last_result, stt_item, audioVars>>

\* line 285: self.audio_queue.put(None)
STTStopPut ==
    /\ pc["caller"] = "stop_put"
    /\ stt_lifecycle = "stopping"
    /\ ~QueueFull(audio_queue, audio_queue_maxsize)
    /\ audio_queue' = Append(audio_queue, NoneAudio)
    /\ pc' = [pc EXCEPT !["caller"] = "stop_join"]
    /\ UNCHANGED <<orchestrator, dispatchVars, captureVars, translatorVars, stt_model_loaded, stt_results, stt_is_running,
                   last_result, stt_item, stt_lifecycle, audioVars>>

\* lines 288-291: join(timeout=5.0) returns when the worker has ended or when
\* the timeout expires; stop() returns
STTStopJoin ==
    /\ pc["caller"] = "stop_join"
    /\ stt_lifecycle = "stopping"
    /\ stt_lifecycle' = "stopped"
    /\ pc' = [pc EXCEPT !["caller"] = "idle"]
    /\ UNCHANGED <<orchestrator, dispatchVars, captureVars, translatorVars, stt_model_loaded, audio_queue, stt_results,
                   stt_is_running, last_result, stt_item, audioVars>>

\* the steps of a run with the given number of process_audio calls
NextSTTSteps(segments) ==
    \/ STTStart
    \/ STTHead
    \/ STTGet
    \/ STTGetEmpty
    \/ \E outcome \in SttOutcomes : STTEngineReturns(outcome)
    \/ STTResult
    \/ \E p \in 1..segments, audio_data \in AudioInputs : AudioCall(p, audio_data)
    \/ \E p \in 1..segments : AudioPut(p)
    \/ STTStopBegin
    \/ STTStopPut
    \/ STTStopJoin
    \/ CallbackReturns

NextSTTNoHang == NextSTTSteps(MaxSegments)

NextSTT ==
    \/ NextSTTNoHang
    \/ STTHang

\* the transcription stage through one start() / stop() cycle
SpecSTT == InitStages /\ [][NextSTT]_vars

(***************************************************************************)
(* Audio capture on its own.                                               *)
(***************************************************************************)
\* any of the configured durations, a consumer registered or not
InitCapture ==
    /\ min_speech_duration \in SpeechDurations
    /\ max_silence_duration \in SilenceDurations
    /\ on_speech_ended \in BOOLEAN
    /\ on_continuous_audio = on_speech_ended
    /\ buffer_config = [buffer_duration |-> buffer_size, sample_rate |-> 1, chunk_size |-> 1]
    /\ audio_buffer_maxlen = BufferCapacity(buffer_config)
    /\ CaptureConstructed
    /\ use_cache = TRUE
    /\ skip_duplicates = TRUE
    /\ cache_file = [state |-> "missing", data |-> EmptyMap]
    /\ TranslatorConstructed
    /\ STTConstructed

NextCapture ==
    \/ StartCapture
    \/ \E chunk \in Chunks, tick \in Ticks : AudioCallback(chunk, tick)

\* start_capture and the stream delivering chunks to audio_callback; the
\* continuous processing worker writes none of the variables audio_callback
\* reads and is left to SpecCaptureSessions
SpecCapture == InitCapture /\ [][NextCapture]_vars

\* the capture as main.py sets it up
InitCaptureSessions ==
    /\ CaptureIdle
    /\ use_cache = TRUE
    /\ skip_duplicates = TRUE
    /\ cache_file = [state |-> "missing", data |-> EmptyMap]
    /\ TranslatorConstructed
    /\ STTConstructed

\* silence and loud speech
SessionChunks == {chunk \in Chunks : chunk.voiced = (chunk.rms > silence_threshold)}

NextCaptureSessions ==
    \/ \E chunk \in SessionChunks, tick \in Ticks : AudioCallback(chunk, tick)
    \/ CaptureControl

\* capture sessions: start_capture, the stream, the continuous processing
\* worker, stop_capture and start_capture again
SpecCaptureSessions == InitCaptureSessions /\ [][NextCaptureSessions]_vars

\* a configuration is given and the ring buffer is not created yet
InitBufferConfig ==
    /\ buffer_config \in BufferConfigs
    /\ audio_buffer_maxlen = 0 - 1
    /\ min_speech_duration = 1
    /\ max_silence_duration = 2
    /\ on_speech_ended = FALSE
    /\ on_continuous_audio = FALSE
    /\ CaptureConstructed
    /\ use_cache = TRUE
    /\ skip_duplicates = TRUE
    /\ cache_file = [state |-> "missing", data |-> EmptyMap]
    /\ TranslatorConstructed
    /\ STTConstructed

\* ChromeAudioCapture.__init__, lines 37-39: the ring buffer is created
ConstructCapture ==
    /\ audio_buffer_maxlen = 0 - 1
    /\ audio_buffer_maxlen' = BufferCapacity(buffer_config)
    /\ UNCHANGED <<min_speech_duration, max_silence_duration, on_speech_ended,
                   on_continuous_audio, buffer_config, callbackVars, controlVars,
                   translatorVars, pc, sttVars, orchestrator, dispatchVars>>

\* the construction of the ring buffer for every configuration
SpecBufferConfig == InitBufferConfig /\ [][ConstructCapture]_vars

\* one capture session with the clock: chunks keep arriving, the worker runs
\* its passes poll_interval apart
SpecCaptureTimed ==
    InitCaptureSessions
        /\ [][\/ StartCapture
              \/ \E chunk \in Chunks, tick \in Ticks : TimedCallback(chunk, tick)
              \/ ContinuousPoll
              \/ ContinuousHead
              \/ ContinuousLen
              \/ ContinuousList]_vars

(***************************************************************************)
(* ChromeRealtimeTranslator.start(), src/main.py lines 303-346, over the   *)
(* components _initialize_components has constructed: _start_components    *)
(* starts the transcription stage, the translation stage and the capture,  *)
(* in this order; a start() that raises is answered by _stop_components.   *)
(***************************************************************************)
\* start(), lines 303-313, with the components constructed
OrchStart ==
    /\ orchestrator = "new"
    /\ orchestrator' = "starting"
    /\ UNCHANGED <<dispatchVars, captureVars, translatorVars, pc, sttVars>>

\* realtime_stt.py start() line 263 with load_model (lines 100-125) raising:
\* on_error is called, the exception leaves start() before the flag is set
\* and reaches the except branch of _start_components (main.py line 173)
STTLoadFails ==
    /\ orchestrator = "starting"
    /\ pc["caller"] = "idle"
    /\ stt_lifecycle = "new"
    /\ ~stt_model_loaded
    /\ stt_lifecycle' = "failed"
    /\ error_calls' = error_calls + 1
    /\ orchestrator' = "aborting"
    /\ UNCHANGED <<result_callbacks, captureVars, translatorVars, pc, stt_model_loaded,
                   audio_queue, stt_results, stt_is_running, last_result, stt_item,
                   audioVars>>

\* realtime_translator.py start() line 295 with load_model (lines 116-143)
\* raising, the transcription stage already started
TranslatorLoadFails ==
    /\ orchestrator = "starting"
    /\ stt_lifecycle = "running"
    /\ pc["caller"] = "idle"
    /\ lifecycle = "new"
    /\ ~model_loaded
    /\ lifecycle' = "failed"
    /\ error_calls' = error_calls + 1
    /\ orchestrator' = "aborting"
    /\ UNCHANGED <<result_callbacks, captureVars, configVars, cache_file, model_loaded,
                   coreVars, translation_queue, translation_results,
                   translator_is_running, processing_threads, stop_i, producerVars,
                   sttVars>>

\* capture started before the stages
CaptureMayStartEarly == pc["caller"] = "idle"

\* _start_components lines 156-168: start_capture() is called once stt.start()
\* and translator.start() have returned
CaptureMayStart ==
    /\ stt_lifecycle = "running"
    /\ lifecycle = "running"
    /\ pc["caller"] = "idle"

\* start_capture() raises (audio_capture.py lines 234-264): before line 249
\* (no device, the stream cannot be opened) with is_recording still False, or
\* in start_stream() at line 250 with is_recording already True; the worker
\* thread is not started; the exception reaches main.py line 173
StartCaptureFails ==
    /\ orchestrator = "starting"
    /\ CaptureMayStart
    /\ ~is_recording
    /\ cont_pc = "off"
    /\ is_recording' \in BOOLEAN
    /\ orchestrator' = "aborting"
    /\ UNCHANGED <<captureConfigVars, callbackVars, last_processing_time, cont_pc,
                   cont_now, cont_n, flushed, session_base, sessions, cont_other,
                   translatorVars, pc, sttVars, dispatchVars>>

\* start() lines 313-314: _start_components has returned, is_running is set
OrchRunning ==
    /\ orchestrator = "starting"
    /\ pc["caller"] = "idle"
    /\ is_recording
    /\ orchestrator' = "running"
    /\ UNCHANGED <<dispatchVars, captureVars, translatorVars, pc, sttVars>>

\* the handler raises without waiting for _stop_components
OrchRaiseNoStop ==
    /\ orchestrator = "aborting"
    /\ pc["caller"] = "idle"
    /\ orchestrator' = "raised"
    /\ UNCHANGED <<dispatchVars, captureVars, translatorVars, pc, sttVars>>

\* _start_components lines 173-176 and start() lines 340-346: _stop_components
\* has returned (stop_capture, stt.stop() and translator.stop() have run for
\* the components that were started), the exception is raised again and
\* leaves start(), whose stop() calls return at once
OrchRaise ==
    /\ orchestrator = "aborting"
    /\ pc["caller"] = "idle"
    /\ ~is_recording
    /\ ~stt_is_running
    /\ ~translator_is_running
    /\ orchestrator' = "raised"
    /\ UNCHANGED <<dispatchVars, captureVars, translatorVars, pc, sttVars>>

\* stop(), main.py lines 350-355, from the signal handler or the finally
\* branch of start(): is_running is cleared, _stop_components is entered
OrchStop ==
    /\ orchestrator = "running"
    /\ pc["caller"] = "idle"
    /\ orchestrator' = "stopping"
    /\ UNCHANGED <<dispatchVars, captureVars, translatorVars, pc, sttVars>>

\* stop() lines 361-371: _stop_components has returned
OrchStopped ==
    /\ orchestrator = "stopping"
    /\ pc["caller"] = "idle"
    /\ ~is_recording
    /\ ~stt_is_running
    /\ lifecycle = "stopped"
    /\ orchestrator' = "stopped"
    /\ UNCHANGED <<dispatchVars, captureVars, translatorVars, pc, sttVars>>

NextOrchestrator ==
    \/ OrchStart
    \/ orchestrator = "starting" /\ lifecycle = "new" /\ STTStart
    \/ STTLoadFails
    \/ orchestrator = "starting" /\ stt_lifecycle = "running" /\
          \/ StartLoad
          \/ WarmupModel
          \/ \E outcome \in StageOutcomes : CallerEngineReturns(outcome)
          \/ \E n \in 1..Len(WorkerIds) : StartWorkers(n)
    \/ TranslatorLoadFails
    \/ orchestrator = "starting" /\ CaptureMayStart /\ StartCapture
    \/ StartCaptureFails
    \/ OrchRunning
    \/ OrchStop
    \/ orchestrator \in {"aborting", "stopping"} /\ pc["caller"] = "idle" /\ StopCapture
    \/ orchestrator \in {"aborting", "stopping"} /\ ~is_recording /\
          \/ STTStopBegin
          \/ STTStopPut
          \/ STTStopJoin
    \/ orchestrator \in {"aborting", "stopping"} /\ ~is_recording /\ ~stt_is_running /\
          \/ StopBegin
          \/ StopPut
          \/ StopJoin
          \/ StopSave
    \/ OrchRaise
    \/ OrchStopped
    \/ STTHead
    \/ STTGet
    \/ STTGetEmpty
    \/ \E w \in Workers : WorkerHead(w)
    \/ \E w \in Workers : WorkerGetEmpty(w)

\* the system being started
SpecOrchestrator == InitTranslatorStage /\ [][NextOrchestrator]_vars

\* chunks whose RMS level is at most half of silence_threshold
QuietChunks == {chunk \in Chunks : chunk.rms * 2 <= silence_threshold}

\* the stream delivers quiet chunks of one constant level
NextCaptureQuiet ==
    \/ StartCapture
    \/ \E chunk \in QuietChunks, tick \in Ticks :
          /\ chunk_no > 0 => chunk.rms = last_audio_data.rms
          /\ AudioCallback(chunk, tick)

SpecCaptureQuiet == InitCapture /\ [][NextCaptureQuiet]_vars

\* capture sessions with a start_capture() that does not wait for the worker
\* of the session before; the stream delivers silence, a chunk every
\* processing_interval
SpecCaptureRestart ==
    InitCaptureSessions
        /\ [][\/ \E chunk \in QuietChunks : AudioCallback(chunk, processing_interval)
              \/ CaptureControl
              \/ StartCaptureEarly
              \/ ContinuousSwitch]_vars

(***************************************************************************)
(* Both stages with engine calls that all return, one stage exercised per  *)
(* run, under the fairness the thread scheduler gives: a thread that can   *)
(* take its next step eventually takes it.                                 *)
(***************************************************************************)
TranslatorUntouched ==
    /\ lifecycle = "new"
    /\ \A p \in 1..MaxRequests : prod_pc[p] = "new"

STTUntouched ==
    /\ stt_lifecycle = "new"
    /\ \A p \in 1..MaxSegments : audio_pc[p] = "new"

\* one step of translation worker w
WorkerStep(w) ==
    \/ WorkerHead(w)
    \/ WorkerGet(w)
    \/ WorkerGetEmpty(w)
    \/ WorkerCount(w)
    \/ \E outcome \in StageOutcomes : WorkerEngineReturns(w, outcome)
    \/ WorkerResult(w)

\* one step of the transcription worker
STTStep ==
    \/ STTHead
    \/ STTGet
    \/ STTGetEmpty
    \/ \E outcome \in SttOutcomes : STTEngineReturns(outcome)
    \/ STTResult

\* one step of a stop() call
StopStep ==
    \/ StopPut
    \/ StopJoin
    \/ StopSave
    \/ STTStopPut
    \/ STTStopJoin

NextStages ==
    \/ STTUntouched /\ NextTranslatorSteps(MaxShutdownItems)
    \/ TranslatorUntouched /\ NextSTTSteps(MaxShutdownItems)

SpecStagesFair ==
    /\ InitStages
    /\ [][NextStages]_vars
    /\ \A w \in Workers : WF_vars(WorkerStep(w))
    /\ WF_vars(STTStep)
    /\ WF_vars(StopStep)

\* main.py _on_transcription, lines 218-231, on the thread the transcription
\* worker started for its p-th result (realtime_stt.py lines 238-243): the
\* text is passed to translate_async
PipelineCall(p) ==
    /\ p <= Len(stt_results)
    /\ ProducerCall(p, stt_results[p])

\* both stages running as main.py connects them: segments go to the
\* transcription stage, each transcription is passed to translate_async on a
\* thread of its own
SpecPipeline ==
    InitStages
        /\ [][\/ lifecycle = "new" /\ STTStart
              \/ stt_lifecycle = "running" /\
                    \/ StartLoad
                    \/ WarmupModel
                    \/ \E outcome \in StageOutcomes : CallerEngineReturns(outcome)
                    \/ \E n \in 1..Len(WorkerIds) : StartWorkers(n)
              \/ lifecycle = "running" /\
                    \/ \E p \in 1..MaxShutdownItems, audio_data \in AudioInputs :
                          AudioCall(p, audio_data)
                    \/ \E p \in 1..MaxShutdownItems : AudioPut(p)
              \/ STTStep
              \/ \E p \in 1..MaxShutdownItems : PipelineCall(p)
              \/ \E p \in 1..MaxShutdownItems : ProducerPut(p)
              \/ \E p \in 1..MaxShutdownItems : ProducerDrop(p)
              \/ \E w \in Workers : WorkerStep(w)
              \/ CallbackReturns]_vars

\* the translation stage started, stopped and started again
SpecRestart ==
    InitStages
        /\ [][\/ STTUntouched /\ NextTranslatorSteps(MaxShutdownItems)
              \/ StartAgain]_vars

\* the translation stage with an engine that samples: a worker's engine call
\* may return either output for its text
SpecCacheRace ==
    InitStages
        /\ [][\/ STTUntouched /\ NextTranslatorSteps(MaxShutdownItems)
              \/ \E w \in Workers : WorkerEngineReturns(w, "q")]_vars

(***************************************************************************)
(* Claims about translate_text, checked under SpecTranslate.               *)
(***************************************************************************)
LogIdx == 1..Len(call_log)

\* C1 as stated: of two translate_text calls in a row with identical text, the
\* first having called the engine and stored its result, the second calls no
\* engine, returns the stored result, adds one to cache_hits and leaves
\* cache_misses alone.
C1_SecondCallHitsCache ==
    \A i \in LogIdx :
        (i + 1 \in LogIdx /\ call_log[i].stored
            /\ call_log[i + 1].input = call_log[i].input)
        => /\ call_log[i + 1].engine = "none"
           /\ call_log[i + 1].ret = call_log[i].ret
           /\ call_log[i + 1].hits1 = call_log[i + 1].hits0 + 1
           /\ call_log[i + 1].misses1 = call_log[i + 1].misses0

\* C1 amended: after a call that stored its result, a later call with the same
\* text never calls the engine.  If the text equals the last translated text
\* and skip_duplicates is on (always so for the call right after), the call is
\* discarded: it returns "" and changes no counter.  Otherwise it returns the
\* stored result, adds one to cache_hits and leaves cache_misses alone.
C1_RepeatServedWithoutEngine ==
    \A i, j \in LogIdx :
        (i < j /\ call_log[i].stored /\ call_log[j].text = call_log[i].text)
        => /\ call_log[j].engine = "none"
           /\ (j = i + 1 => call_log[j].last0 = call_log[j].text)
           /\ IF skip_duplicates /\ call_log[j].last0 = call_log[j].text
              THEN /\ call_log[j].ret = <<>>
                   /\ call_log[j].hits1 = call_log[j].hits0
                   /\ call_log[j].misses1 = call_log[j].misses0
              ELSE /\ call_log[j].ret = call_log[i].ret
                   /\ call_log[j].hits1 = call_log[j].hits0 + 1
                   /\ call_log[j].misses1 = call_log[j].misses0

\* a stored text is requested again after another text, with the filter on,
\* and is served from the cache
C1_Witness ==
    /\ skip_duplicates
    /\ \E i, j \in LogIdx :
          /\ i < j /\ call_log[i].stored /\ call_log[j].text = call_log[i].text
          /\ call_log[j].ret = call_log[i].ret
          /\ call_log[j].hits1 = call_log[j].hits0 + 1

\* every cache entry was loaded from the persisted store (saved by an earlier
\* run from its engine results) or is the result of a successful engine call
CacheFromEngine ==
    \A k \in DOMAIN translation_cache :
        \/ /\ k \in DOMAIN load_cache(cache_file)
           /\ load_cache(cache_file)[k] = translation_cache[k]
        \/ \E i \in LogIdx :
              /\ call_log[i].engine = "ok"
              /\ get_cache_key(call_log[i].text) = k
              /\ call_log[i].ret = translation_cache[k]

C3_ShortSpeechDeferred ==
    [][(chunk_no' = chunk_no + 1 /\ is_speaking /\ ~has_speech')
        => LET now == current_time'
               silence_start == IF silence_start_time = NoTime
                                THEN now ELSE silence_start_time
           IN  now - silence_start >= max_silence_duration
               => IF now - speech_start_time < min_speech_duration
                  THEN /\ is_speaking'
                       /\ silence_start_time' = silence_start
                       /\ emitted' = emitted
                  ELSE /\ ~is_speaking'
                       /\ on_speech_ended
                          => /\ Len(emitted') = Len(emitted) + 1
                             /\ emitted'[Len(emitted')][Len(emitted'[Len(emitted')])]
                                   = chunk_no']_vars

\* an utterance of a single speech chunk was held back when the silence limit
\* was reached, and was emitted by a later non-speech chunk
C3_Witness ==
    /\ on_speech_ended
    /\ ~is_speaking /\ ~has_speech
    /\ deferrals > 0
    /\ last_speech_time = speech_start_time
    /\ emitted # <<>>
    /\ emitted[Len(emitted)][Len(emitted[Len(emitted)])] = chunk_no

\* C11: a chunk whose RMS level is at most the adaptive threshold in force
\* after its own level was appended to the noise buffer is classified as
\* non-speech, whatever its spectral content.
C11_BelowThresholdIsNonSpeech ==
    (chunk_no > 0 /\ last_audio_data.rms * noise_warmup <= adaptive_threshold)
    => ~has_speech

\* a loud chunk with a speech-like spectrum, below a threshold that the noise
\* buffer has raised above the static one, was classified as non-speech
C11_Witness ==
    /\ chunk_no > 0
    /\ last_audio_data.voiced
    /\ last_audio_data.rms > silence_threshold
    /\ adaptive_threshold > silence_threshold * noise_warmup
    /\ last_audio_data.rms * noise_warmup <= adaptive_threshold
    /\ ~has_speech

\* C12, checked under SpecCaptureQuiet: while every chunk has the same RMS
\* level of at most half of silence_threshold, the adaptive threshold equals
\* silence_threshold after every chunk, the state is never Speaking and no
\* segment is emitted.
C12_QuietStaysIdle ==
    /\ adaptive_threshold = silence_threshold * noise_warmup
    /\ ~is_speaking
    /\ ~has_speech
    /\ emitted = <<>>

\* the noise buffer has been filled and has slid over quiet chunks with a
\* speech-like spectrum
C12_Witness ==
    /\ chunk_no = MaxChunks
    /\ chunk_no > noise_maxlen
    /\ last_audio_data.rms > 0
    /\ last_audio_data.voiced
    /\ \A i \in 1..Len(noise_buffer) : noise_buffer[i] = last_audio_data.rms

\* C17: the ring buffer never holds more than buffer_size chunks, and it holds
\* exactly the most recently appended chunks in arrival order.
C17_RingBufferKeepsNewest ==
    /\ Len(audio_buffer) = Min(chunk_no, buffer_size)
    /\ \A i \in 1..Len(audio_buffer) :
          audio_buffer[i] = chunk_no - Len(audio_buffer) + i

\* appends to the full buffer have evicted the oldest chunks
C17_Witness ==
    /\ chunk_no > buffer_size + 1
    /\ Len(audio_buffer) = buffer_size
    /\ audio_buffer[1] = chunk_no - buffer_size + 1

\* the ring buffer as it is right after chunk number k was appended
BufferAt(k) ==
    [i \in 1..Min(k, buffer_size) |-> k - Min(k, buffer_size) + i]

\* C18: every segment the continuous processing worker takes with
\* get_audio_segment is what get_audio_segment returns on the ring buffer as
\* it is at one single point between two appends.
C18_SnapshotAtSinglePoint ==
    \A i \in 1..Len(flushed) :
        \E k \in 1..chunk_no : flushed[i].segment = get_audio_segment(BufferAt(k))

\* the worker handed over a segment that is shorter than the window although
\* the buffer held more chunks when the segment was cut
C18_Witness ==
    \E i \in 1..Len(flushed) :
        /\ Len(flushed[i].segment) < segment_chunks
        /\ flushed[i].segment[1] > 1

\* C19: while a capture session runs, the ring buffer holds no chunk appended
\* before the session's start_capture, and no segment the continuous
\* processing worker hands over holds one.
C19_NoAudioFromEarlierSession ==
    /\ is_recording => \A i \in 1..Len(audio_buffer) : audio_buffer[i] > session_base
    /\ \A i \in 1..Len(flushed) :
          \A j \in 1..Len(flushed[i].segment) :
              flushed[i].segment[j] > flushed[i].session_base

\* in a second session the worker handed over a segment with a chunk of the
\* first session
C19_Witness ==
    \E i \in 1..Len(flushed) :
        /\ flushed[i].session_base > 0
        /\ flushed[i].segment[1] <= flushed[i].session_base

\* the engine call of the item worker w has just processed raised
TranslationFailed(w) == pc[w] = "w_result" /\ frame[w].failed

\* model.transcribe raised on the segment the worker has just processed
TranscriptionFailed == pc["stt"] = "s_result" /\ stt_item.raw = <<"fail">>

\* C13, checked under SpecStagesFair: a worker whose engine call raised on an
\* item is not ended by it; it comes back to the head of its loop, where the
\* next item is taken.
C13_FailureNeverEndsWorker ==
    /\ \A w \in Workers : TranslationFailed(w) ~> (pc[w] = "head")
    /\ TranscriptionFailed ~> (pc["stt"] = "head")

\* the single worker has queued the result of an item after the engine call
\* of an earlier item raised (translate_text returned the text itself)
C13_Witness ==
    /\ Len(processing_threads) = 1
    /\ \E i, j \in 1..Len(translation_results) :
          /\ i < j
          /\ translation_results[i][2] = NormalizeText(translation_results[i][1])
          /\ translation_results[j][2] # NormalizeText(translation_results[j][1])

\* C14, checked under SpecStagesFair: when a worker has finished an item
\* whose engine call raised, on_error has been called for it.
C14_FailureReportedToOnError ==
    [][/\ \A w \in Workers :
            (TranslationFailed(w) /\ pc'[w] = "head") => error_calls' = error_calls + 1
       /\ (TranscriptionFailed /\ pc'["stt"] = "head") => error_calls' = error_calls + 1
      ]_vars

\* the untranslated text of a failed item was handed over as its translation
\* and on_error was never called
C14_Witness ==
    /\ error_calls = 0
    /\ \E i \in 1..Len(translation_results) :
          translation_results[i][2] = NormalizeText(translation_results[i][1])

\* C20, checked under SpecSTT: the callbacks running at the same time stay
\* below the number of segments submitted, i.e. some limit holds callbacks
\* back when every segment has produced a result.
C20_CallbacksBounded == result_callbacks < MaxSegments

\* every submitted segment has produced a result and all their
\* on_transcription threads are running at once
C20_Witness ==
    /\ Len(stt_results) = MaxSegments
    /\ result_callbacks = MaxSegments

\* C15, checked under SpecTranslate: with a store that is missing or does
\* not hold a saved map the cache is empty until this run's first miss, and
\* translate_text raises nothing but "Model not loaded" (which comes after
\* the miss was counted).
C15_BadStoreLoadsEmpty ==
    (use_cache /\ cache_file.state # "ok") =>
        /\ cache_misses = 0 => translation_cache = EmptyMap
        /\ \A i \in 1..Len(call_log) :
              call_log[i].raised => call_log[i].misses1 > call_log[i].misses0

\* with the model loaded and a store holding JSON null, translate_text raised
\* at the cache lookup
C15_Witness ==
    /\ use_cache
    /\ cache_file.state = "not_object"
    /\ model_loaded
    /\ \E i \in 1..Len(call_log) :
          call_log[i].raised /\ call_log[i].misses1 = call_log[i].misses0

\* C16, checked under SpecOrchestrator: a stage whose model failed to load
\* in start() is not running and has no worker, the system never reaches the
\* running state after it, and when start() has raised no component is
\* running.
C16_LoadFailureAbortsStartup ==
    /\ stt_lifecycle = "failed" =>
          /\ ~stt_is_running
          /\ pc["stt"] = "unborn"
          /\ orchestrator \in {"aborting", "raised"}
    /\ lifecycle = "failed" =>
          /\ ~translator_is_running
          /\ processing_threads = <<>>
          /\ \A w \in Workers : pc[w] = "unborn"
          /\ orchestrator \in {"aborting", "raised"}
    /\ orchestrator = "raised" =>
          /\ ~stt_is_running
          /\ ~translator_is_running
          /\ ~is_recording

\* the translation model failed to load after the transcription stage was
\* started; the transcription stage was stopped and start() has raised
C16_Witness ==
    /\ orchestrator = "raised"
    /\ lifecycle = "failed"
    /\ stt_lifecycle = "stopped"
    /\ error_calls = 1

\* C21: after a chunk classified as speech, last_speech_time is the time of
\* that chunk and silence_start_time is unset, so that a later silence is
\* measured from its own first non-speech chunk.
C21_SpeechClearsSilenceStart ==
    (chunk_no > 0 /\ has_speech)
        => (is_speaking /\ last_speech_time = current_time
            /\ silence_start_time = NoTime)

\* speech resumed in an utterance that had a silence before: the chunk before
\* the latest one is in the buffer and the utterance started earlier
C21_Witness ==
    /\ has_speech
    /\ is_speaking
    /\ speech_start_time < current_time
    /\ last_speech_time = current_time

\* C22: an utterance ends only when no chunk received during the preceding
\* max_silence_duration was speech: at the step that leaves is_speaking, the
\* last speech chunk is at least max_silence_duration old.
C22_EndsOnlyAfterFullSilence ==
    [][(is_speaking /\ ~is_speaking')
          => current_time' - last_speech_time' >= max_silence_duration]_vars

\* an utterance has ended and its segment was handed over
C22_Witness ==
    /\ ~is_speaking
    /\ ~has_speech
    /\ emitted # <<>>
    /\ silence_start_time = NoTime
    /\ last_speech_time # NoTime

\* C23: once the noise buffer holds noise_warmup levels, the adaptive
\* threshold stays the same at every later chunk, also after the noise buffer
\* has started to drop its oldest levels.
C23_ThresholdFixedAfterWarmup ==
    [][Len(noise_buffer) >= noise_warmup
          => adaptive_threshold' = adaptive_threshold]_vars

\* the noise buffer has dropped a level and the threshold is above the static one
C23_Witness ==
    /\ chunk_no > noise_maxlen
    /\ Len(noise_buffer) = noise_maxlen
    /\ adaptive_threshold > silence_threshold * noise_warmup

\* C24: the capacity of the ring buffer is the quotient buffer_duration *
\* sample_rate / chunk_size rounded up, for every configuration.
C24_CapacityIsCeiling ==
    audio_buffer_maxlen # 0 - 1
        => audio_buffer_maxlen =
              (buffer_config.buffer_duration * buffer_config.sample_rate
                   + buffer_config.chunk_size - 1) \div buffer_config.chunk_size

\* the ring buffer of the default configuration: 5 s at 16000 Hz in chunks of 1024
C24_Witness ==
    /\ buffer_config = [buffer_duration |-> 5, sample_rate |-> 16000, chunk_size |-> 1024]
    /\ audio_buffer_maxlen = 78

\* C25: the segment handed over when an utterance ends is the whole content of
\* the ring buffer at that chunk, in arrival order: the most recent
\* buffer_duration seconds, or every buffered chunk when fewer are buffered.
C25_SegmentIsWholeBuffer ==
    \A i \in 1..Len(emitted) :
        emitted[i] = BufferAt(emitted[i][Len(emitted[i])])

\* a segment was handed over when the buffer held more than segment_chunks chunks
C25_Witness ==
    /\ emitted # <<>>
    /\ Len(emitted[1]) = segment_chunks
    /\ emitted[1][1] > 1

\* C26: a chunk that is not speech, received while not speaking, hands over no
\* segment and leaves is_speaking, speech_start_time, silence_start_time and
\* last_speech_time as they were.
C26_IdleSilenceChangesNothing ==
    [][(~is_speaking /\ chunk_no' = chunk_no + 1 /\ ~has_speech')
          => UNCHANGED <<is_speaking, speech_start_time, silence_start_time,
                         last_speech_time, emitted>>]_vars

\* a chunk that is not speech came after the chunk that ended an utterance
C26_Witness ==
    /\ emitted # <<>>
    /\ emitted[Len(emitted)][Len(emitted[Len(emitted)])] < chunk_no
    /\ ~is_speaking
    /\ ~has_speech
    /\ silence_start_time = NoTime

\* C27: the continuous processing worker hands over a segment only when
\* processing_interval has passed since last_processing_time and the buffer is
\* not empty, and sets last_processing_time to its clock reading at each
\* hand-over: segments are never empty, two consecutive hand-overs are at
\* least processing_interval apart, and last_processing_time is the time of
\* the latest hand-over, or its initial value when there was none.
C27_FlushesAtLeastIntervalApart ==
    /\ \A i \in 1..Len(flushed) : flushed[i].segment # <<>>
    /\ \A i \in 1..(Len(flushed) - 1) :
          flushed[i + 1].time - flushed[i].time >= processing_interval
    /\ last_processing_time =
          IF flushed = <<>> THEN 0 - processing_interval
          ELSE flushed[Len(flushed)].time

\* two hand-overs have taken place
C27_Witness ==
    /\ Len(flushed) = 2
    /\ flushed[2].time >= flushed[1].time + processing_interval
    /\ last_processing_time = flushed[2].time

C29_CallbackNeverBlocksWorker ==
    \A t \in Workers \cup {"stt"} :
        (pc[t] = "head" /\ result_callbacks > 0) ~> (pc[t] \in {"get", "exited"})

\* the transcription worker has the result of a later segment in hand while the
\* callback of an earlier one is still running
C29_Witness ==
    /\ pc["stt"] = "s_result"
    /\ stt_item.text # <<>>
    /\ result_callbacks > 0
    /\ Len(stt_results) = result_callbacks

C40_ThresholdNeverBelowStatic ==
    adaptive_threshold >= silence_threshold * noise_warmup

\* the threshold was computed from levels whose doubled mean is below the
\* static threshold
C40_Witness ==
    /\ Len(noise_buffer) >= noise_warmup
    /\ Sum(SubSeq(noise_buffer, 1, noise_warmup)) * 2 < silence_threshold * noise_warmup
    /\ adaptive_threshold = silence_threshold * noise_warmup

\* C36: a segment is handed to on_speech_ended only at a step that leaves
\* is_speaking, one segment per such step; and a chunk that is not speech,
\* arriving while speaking with both durations reached, leaves is_speaking
\* and clears silence_start_time, whether or not a consumer is registered.
C36_SegmentOnlyOnTransition ==
    [][/\ emitted' # emitted
            => (is_speaking /\ ~is_speaking' /\ Len(emitted') = Len(emitted) + 1)
       /\ (/\ is_speaking
           /\ chunk_no' = chunk_no + 1
           /\ ~has_speech'
           /\ current_time' - (IF silence_start_time = NoTime THEN current_time'
                                ELSE silence_start_time) >= max_silence_duration
           /\ current_time' - speech_start_time >= min_speech_duration)
            => (~is_speaking' /\ silence_start_time' = NoTime)]_vars

\* an utterance has ended with no consumer registered
C36_Witness ==
    /\ ~on_speech_ended
    /\ ~is_speaking
    /\ ~has_speech
    /\ last_speech_time # NoTime
    /\ silence_start_time = NoTime
    /\ emitted = <<>>

\* C32: once stop() has returned and every worker has exited, the input queue
\* of the stage holds no sentinel, however stop() interleaves with the
\* workers' loop condition.
C32_NoSentinelLeftBehind ==
    (lifecycle = "stopped" /\ \A w \in Workers : pc[w] \in {"unborn", "exited"})
    => \A i \in 1..Len(translation_queue) : translation_queue[i] # NoneItem

\* stop() has returned, the workers have exited, and all that is left in the
\* queue is a sentinel
C32_Witness ==
    /\ lifecycle = "stopped"
    /\ \A w \in Workers : pc[w] \in {"unborn", "exited"}
    /\ translation_queue = <<NoneItem>>
    /\ translation_results # <<>>

\* C35: an entry of translation_cache is never removed and its value never
\* changes, however the translate_text calls of the workers interleave.
C35_CacheEntriesNeverChange ==
    [][\A key \in DOMAIN translation_cache :
          /\ key \in DOMAIN translation_cache'
          /\ translation_cache'[key] = translation_cache[key]]_vars

\* two workers are in the engine call for the same text, not cached
C35_Witness ==
    /\ pc["w1"] = "tt_engine"
    /\ pc["w2"] = "tt_engine"
    /\ frame["w1"].key = frame["w2"].key
    /\ frame["w1"].key \notin DOMAIN translation_cache

\* C34: with several translation workers inside translate_text, cache_hits +
\* cache_misses equals the number of translate_text calls that passed the
\* length and duplicate filters, once no worker is between the read and the
\* write of a counter: no increment is lost
C34_CountersMatchFilterPasses ==
    (\A w \in Workers : pc[w] # "tt_count")
        => cache_hits + cache_misses = filter_passes

\* two workers are both between the read and the write of a counter
C34_Witness ==
    /\ pc["w1"] = "tt_count"
    /\ pc["w2"] = "tt_count"

\* a is b with some elements left out, the order kept
RECURSIVE IsSubseq(_, _)
IsSubseq(a, b) ==
    IF a = <<>> THEN TRUE
    ELSE IF b = <<>> THEN FALSE
    ELSE IF Head(a) = Head(b) THEN IsSubseq(Tail(a), Tail(b))
    ELSE IsSubseq(a, Tail(b))

\* the texts of the results on the result queue, in queue order
ResultInputs == [i \in 1..Len(translation_results) |-> translation_results[i][1]]

\* C31: with a single worker the results are placed on the result queue in
\* the order in which their texts were submitted to the input queue
C31_SingleWorkerKeepsOrder ==
    pc["w2"] = "unborn" => IsSubseq(ResultInputs, enqueued)

\* two workers: text A was submitted before text B and the result for B is
\* on the result queue before the result for A
C31_Witness ==
    /\ pc["w2"] # "unborn"
    /\ Len(enqueued) >= 2
    /\ enqueued[1] # enqueued[2]
    /\ Len(ResultInputs) >= 2
    /\ ResultInputs[1] = enqueued[2]
    /\ ResultInputs[2] = enqueued[1]

\* C38: in the orchestrator, whenever audio capture is recording both stages
\* are running, in every start, stop and start-failure path
C38_RecordingImpliesStagesRunning ==
    is_recording => (stt_is_running /\ translator_is_running)

\* the system was running and is being stopped: capture has stopped, the
\* transcription stage is still running
C38_Witness ==
    /\ orchestrator = "stopping"
    /\ ~is_recording
    /\ stt_is_running
    /\ translator_is_running

\* C33: for any sequence of start_capture() and stop_capture() calls at most
\* one continuous processing worker is alive
C33_AtMostOneFlushWorker == cont_pc = "off" \/ cont_other = NoWorker

\* stop_capture() was followed by start_capture() and the worker of the first
\* session, having found is_recording set again, has gone on to a hand-over
C33_Witness ==
    /\ sessions = 2
    /\ is_recording
    /\ cont_pc # "off"
    /\ cont_other # NoWorker
    /\ Len(flushed) = 2
    /\ flushed[2].time - flushed[1].time < processing_interval

\* C37: for any sequence of start() and stop() calls on a stage, the number
\* of live worker threads never exceeds the number of workers the stage was
\* started with
C37_LiveWorkersWithinCount ==
    translator_is_running =>
        Cardinality({w \in Workers : pc[w] \notin {"unborn", "exited"}})
            <= Len(processing_threads)

\* the stage was started again with one worker while a worker of the first
\* run, left behind by stop(), is still inside its engine call
C37_Witness ==
    /\ lifecycle = "restarted"
    /\ Len(processing_threads) = 1
    /\ \E w \in Workers :
          /\ pc[w] = "tt_engine"
          /\ processing_threads # <<w>>

\* C39: translation requests enter the translation queue in the order in
\* which the transcription stage produced the transcriptions
C39_RequestsInTranscriptionOrder == IsSubseq(enqueued, stt_results)

\* two transcriptions were produced and both have been put on the
\* translation queue
C39_Witness ==
    /\ Len(stt_results) = 2
    /\ Len(enqueued) = 2
    /\ enqueued[1] = stt_results[2]
    /\ enqueued[2] = stt_results[1]

(***************************************************************************)
(* Claims about the translation stage, checked under SpecTranslator.       *)
(***************************************************************************)
\* get_stats(), lines 355-372: the statistics the translator reports (the
\* hit rate is derived from the two counters; the timing average is touched
\* by translate_text only)
get_stats ==
    [cache_entries |-> Cardinality(DOMAIN translation_cache),
     queue_size |-> Len(translation_queue),
     result_queue_size |-> Len(translation_results),
     cache_hits |-> cache_hits,
     cache_misses |-> cache_misses]

\* every started worker is inside a translate_text call
AllWorkersBusy ==
    /\ processing_threads # <<>>
    /\ \A i \in 1..Len(processing_threads) :
          pc[processing_threads[i]] \in {"tt_engine", "hung", "w_result"}

\* C4 as stated: a request submitted while the queue is full and all workers
\* are busy is dropped and counted as dropped: the drop shows in the stage's
\* statistics.
C4_DropIsCounted ==
    [][(\E p \in 1..MaxRequests :
            /\ prod_pc[p] = "put" /\ prod_pc'[p] = "dropped"
            /\ AllWorkersBusy)
        => get_stats' # get_stats]_vars

\* C6 as stated: once stop() has returned and every worker has exited, no
\* submitted text is left in the input queue (no text was enqueued behind the
\* sentinels).
C6_NoItemBehindSentinel ==
    (lifecycle = "stopped" /\ \A w \in Workers : pc[w] \in {"unborn", "exited"})
    => \A i \in 1..Len(translation_queue) : translation_queue[i] = NoneItem

\* C8 as stated: with the workers stuck in engine calls that never return,
\* stop() is never left waiting on something that cannot happen: it does not
\* wait to put a sentinel into a full queue that no worker will read again.
C8_StopNeverWaitsForever ==
    ~(/\ pc["caller"] = "stop_put"
      /\ lifecycle = "stopping"
      /\ stop_i <= Len(processing_threads)
      /\ QueueFull(translation_queue, max_queue_size)
      /\ \A i \in 1..Len(processing_threads) : pc[processing_threads[i]] = "hung")

\* C9 as stated: once stop() has returned, the persisted cache equals the
\* in-memory map, and stays equal.
C9_PersistedEqualsMemory ==
    (lifecycle = "stopped" /\ use_cache)
    => cache_file = [state |-> "ok", data |-> translation_cache]

(***************************************************************************)
(* Claims about the transcription stage, checked under SpecSTT.            *)
(***************************************************************************)
\* C5 as stated: each stage's input queue has a configured capacity (for
\* queue.Queue, a maxsize above 0) and never holds more items than that.
C5_InputQueuesBounded ==
    /\ max_queue_size > 0 /\ Len(translation_queue) <= max_queue_size
    /\ audio_queue_maxsize > 0 /\ Len(audio_queue) <= audio_queue_maxsize

\* every submitted segment and the sentinel wait in the audio queue, nothing
\* was dropped
C5_Witness ==
    /\ Len(audio_queue) = MaxSegments + 1
    /\ audio_drops = 0

C7_WorkersEventuallyExit ==
    (lifecycle = "stopping" \/ stt_lifecycle = "stopping")
        ~> (\A t \in Workers \cup {"stt"} : pc[t] \in {"unborn", "exited"})

\* stop() was called with a request waiting in the queue and a worker inside
\* a translation, and every worker has left its loop
C7_Witness ==
    /\ lifecycle = "stopped"
    /\ Len(translation_results) >= 2
    /\ \A w \in Workers : pc[w] = "exited"

====
